---------------------------- MODULE Spec2Model ----------------------------
(***************************************************************************)
(* Model of the QNX Remote Process Monitor server (qnx-rpm-server).        *)
(*                                                                         *)
(* The program is three threads over shared objects:                       *)
(*   - the main thread (main.cpp): the monitoring loop that rescans        *)
(*     /proc (ProcessCore::collectInfo), updates group statistics and      *)
(*     pushes history samples, then sleeps; when the signal handler has    *)
(*     cleared `running` it calls SocketServer::shutdown();                *)
(*   - the server thread (SocketServer::serverLoop): select / accept /     *)
(*     handleClient, which calls messageHandler inline and sends the reply;*)
(*   - the environment: remote clients, the OS process table, signals.     *)
(***************************************************************************)
EXTENDS Integers, Sequences, FiniteSets, TLC

(***************************************************************************)
(* Bounds of the model                                                     *)
(***************************************************************************)
\* Client cap of the server.  The source sets 30 (SocketServer.cpp:45); the
\* model runs the same code with a small cap so that the cap is reached.
MAX_CLIENTS == 2

\* Descriptors the OS can hand out to accepted connections.
MaxFds == 3

\* Requests the clients send in one behaviour (bounds the logs).
MaxRequests == 3

\* Replies that fit into a connection's socket send buffer before ::send blocks.
SendBuf == 1
\* requests that may lie unread in the server's receive buffers at one time
MaxPending == 1

\* Entries kept per PID by ProcessHistory in this model (60 in the source).
MaxEntries == 2

\* PIDs ProcessHistory tracks at most in this model (100 in the source).
MaxTracked == 1

\* Processors of the machine; time and CPU time are counted in sampling
\* periods (the 2 s sleep of the monitoring loop).
NCPU == 1

\* CPU time one process accumulates in one behaviour, in periods.
MaxCpu == 2

\* Periods after which the age of a remembered sample time stops growing.
MaxAge == 2
MaxNow == 2
MaxPushes == 3
MaxGroupId == 5

(***************************************************************************)
(* Values                                                                  *)
(***************************************************************************)
LISTEN_FD == 3
ClientFds == (LISTEN_FD + 1)..(LISTEN_FD + MaxFds)
NoFd == -1

PIDs == {1, 2}
NoPid == 0

\* UserType (Authenticator.hpp:34-37)
VIEWER == 0
ADMIN == 1

Min(a, b) == IF a < b THEN a ELSE b

SeqToSet(s) == {s[i] : i \in 1..Len(s)}

(***************************************************************************)
(* Credential store: Authenticator.cpp                                     *)
(* A line of /etc/rpm_login is a sequence of characters.                   *)
(***************************************************************************)
Digits == <<"0", "1", "2", "3", "4", "5", "6", "7", "8", "9">>

IsDigit(c) == \E i \in 1..10 : Digits[i] = c

DigitVal(c) == (CHOOSE i \in 1..10 : Digits[i] = c) - 1

\* std::string_view::find(":", start) with 0-based positions; -1 is npos.
Find(line, start) ==
    LET hits == {i \in (start + 1)..Len(line) : line[i] = ":"}
    IN  IF hits = {} THEN -1
        ELSE (CHOOSE i \in hits : \A j \in hits : i <= j) - 1

\* line.substr(pos, n) with a 0-based position.
Substr(line, pos, n) == SubSeq(line, pos + 1, Min(pos + n, Len(line)))

\* The digits at the front of s, as std::from_chars consumes them.
RECURSIVE DigitPrefix(_)
DigitPrefix(s) ==
    IF s = <<>> \/ ~IsDigit(Head(s)) THEN <<>>
    ELSE <<Head(s)>> \o DigitPrefix(Tail(s))

RECURSIVE DecValue(_, _)
DecValue(s, acc) ==
    IF s = <<>> THEN acc ELSE DecValue(Tail(s), acc * 10 + DigitVal(Head(s)))

\* std::from_chars(first, last, int&): an optional minus sign and decimal
\* digits; when no digits are found the value is left as it was (0).
FromChars(s) ==
    LET neg  == s # <<>> /\ Head(s) = "-"
        body == IF neg THEN Tail(s) ELSE s
        ds   == DigitPrefix(body)
    IN  IF ds = <<>> THEN 0
        ELSE IF neg THEN 0 - DecValue(ds, 0) ELSE DecValue(ds, 0)

NoEntry == [valid |-> FALSE]

\* UserEntry::FromString
FromString(line) ==
    LET e1 == Find(line, 0) IN
    IF e1 = -1 THEN NoEntry ELSE
    LET e2 == Find(line, e1 + 1) IN
    IF e2 = -1 THEN NoEntry ELSE
    LET e3 == Find(line, e2 + 1) IN
    IF e3 = -1 THEN NoEntry ELSE
    LET type_value == FromChars(Substr(line, e3 + 1, Len(line))) IN
    IF 0 > type_value \/ type_value > 1 THEN NoEntry
    ELSE [valid    |-> TRUE,
          username |-> Substr(line, 0, e1),
          hash     |-> Substr(line, e1 + 1, e2 - (e1 + 1)),
          salt     |-> Substr(line, e2 + 1, e3 - (e2 + 1)),
          type     |-> type_value]

\* crypt(3): the result carries the salt and a digest of the key under it.
crypt(key, salt) == salt \o <<"$">> \o key

\* Authenticator::generate_hash
generate_hash(password, salt) == crypt(password, salt)

\* The loop of ValidateLogin over the lines of the file: the index of the
\* line at which it returns true, 0 when it runs off the end.
RECURSIVE MatchLine(_, _, _, _)
MatchLine(file, username, password, i) ==
    IF i > Len(file) THEN 0
    ELSE LET user_entry == FromString(file[i]) IN
         IF ~user_entry.valid
         THEN MatchLine(file, username, password, i + 1)
         ELSE IF generate_hash(password, user_entry.salt) = user_entry.hash
              THEN i
              ELSE MatchLine(file, username, password, i + 1)

\* Authenticator::ValidateLogin
ValidateLogin(exists, file, username, password) ==
    IF ~exists THEN FALSE
    ELSE MatchLine(file, username, password, 1) # 0


(***************************************************************************)
(* The credential file used by the running server, and what clients send.  *)
(***************************************************************************)
\* /etc/rpm_login: alice (viewer, password p, salt s), root (admin,
\* password q, salt t) and one line without enough fields.
LoginFileLines ==
    << <<"a", ":", "s", "$", "p", ":", "s", ":", "0">>,
       <<"x", ":", "y">>,
       <<"r", ":", "t", "$", "q", ":", "t", ":", "1">> >>

\* request_type strings (SocketServer.hpp:121-127)
GET_PROCESSES == "GetProcesses"
GET_SIMPLE_DETAILS == "GetSimpleProcessDetails"
GET_DETAILED_DETAILS == "GetDetailedProcessDetails"
SUSPEND_PROCESS == "SuspendProcess"
RESUME_PROCESS == "ResumeProcess"
TERMINATE_PROCESS == "TerminateProcess"
AUTH_LOGIN == "Login"

PidCommands == {GET_SIMPLE_DETAILS, GET_DETAILED_DETAILS, SUSPEND_PROCESS,
                RESUME_PROCESS, TERMINATE_PROCESS}
ControlCommands == {SUSPEND_PROCESS, RESUME_PROCESS, TERMINATE_PROCESS}

NoStr == <<>>

\* A request as the handler sees it: whether the text parses as JSON, the
\* "request_type" string ("" when absent), the "PID" integer (NoPid when
\* absent) and the "username"/"password" strings (has_creds when present).
Request(json, rt, pid, creds, u, p) ==
    [json |-> json, request_type |-> rt, PID |-> pid,
     has_creds |-> creds, username |-> u, password |-> p]

LoginRequests ==
    { Request(TRUE, AUTH_LOGIN, NoPid, TRUE, <<"a">>, <<"p">>),   \* alice, right password
      Request(TRUE, AUTH_LOGIN, NoPid, TRUE, <<"a">>, <<"z">>),   \* alice, wrong password
      Request(TRUE, AUTH_LOGIN, NoPid, TRUE, <<"b">>, <<"p">>),   \* unknown user, alice's password
      Request(TRUE, AUTH_LOGIN, NoPid, TRUE, <<"r">>, <<"q">>),   \* root, right password
      Request(TRUE, AUTH_LOGIN, NoPid, FALSE, NoStr, NoStr) }      \* credentials missing

Requests ==
    LoginRequests
    \cup { Request(TRUE, c, p, FALSE, NoStr, NoStr) :
              c \in PidCommands, p \in {1, NoPid} }
    \cup { Request(TRUE, GET_PROCESSES, NoPid, FALSE, NoStr, NoStr),
           Request(TRUE, "Bogus", NoPid, FALSE, NoStr, NoStr),
           Request(TRUE, "", NoPid, FALSE, NoStr, NoStr),
           Request(FALSE, "", NoPid, FALSE, NoStr, NoStr) }

(***************************************************************************)
(* State                                                                   *)
(***************************************************************************)
VARIABLES
    \* --- SocketServer (SocketServer.hpp:163-169)
    running_,          \* std::atomic<bool> running_
    server_fd_,        \* listening descriptor, -1 when closed
    client_sockets_,   \* std::vector<int>
    clients_mutex_,    \* owner of clients_mutex_: "free", "server" or "main"
    srv,               \* the server thread: position and locals of serverLoop
    \* --- main.cpp
    running,           \* std::atomic<bool> running, cleared by signalHandler
    mainT,             \* the main thread: position and locals; count is what
                       \* collectInfo returned, read the PIDs whose
                       \* readProcessInfo succeeded in the scan
    \* --- ProcessCore
    process_list_,     \* std::vector<ProcessInfo>
    core_mutex_,       \* owner of ProcessCore::mutex_
    last_cpu_times,    \* readProcessCpu's static map: PID -> time of last sample
    last_sutime,       \* history: per PID, pstatus.sutime as readProcessCpu last
                       \* read it (the code keeps no such figure)
    \* --- ProcessHistory
    history_data_,     \* pid -> entries, most recent first
    now,               \* std::chrono::system_clock::now()
    \* --- ProcessGroup
    groups_,           \* group id -> whether the group exists, and its PIDs
    process_group_map_, \* PID -> id of its group, NoGroupId without entry
    next_group_id_,    \* id the next createGroup hands out
    group_mutex_,      \* owner of ProcessGroup::mutex_
    \* --- the console monitor, proc-monitor.c with proc_core.c
    data_mutex,        \* owner of proc_core.c's data_mutex
    monT,              \* the monitor's thread: position, shutdown_flag,
                       \* proc_count, and proc_core.c's table (proc_list),
                       \* last_update_time and CPU slots (last_pid)
    \* --- calls from outside the server's two threads
    call,              \* the last direct call of a library interface, its result
    \* --- operating system and network
    fds,               \* descriptor table of the process: fd -> "open" / "closed"
    backlog,           \* connections waiting in the listen queue
    conn,              \* per client descriptor: the connection behind it
    procs,             \* PIDs alive in the system
    stopped,           \* PIDs currently stopped by SIGSTOP
    procfs_ok,         \* whether /proc can be read
    sutime,            \* per PID: CPU time the process has used, in periods
    budget,            \* CPU time the processors can still give this period
    signals,           \* signals delivered by the server, in order
    \* --- history of the run, for stating the properties
    session,           \* per descriptor: what the session has been granted
    nsent,             \* requests sent by clients so far
    completed,         \* table left by the last rescan that returned a count
    pushes             \* per PID: the entries added since it became tracked

vars == <<running_, server_fd_, client_sockets_, clients_mutex_, srv,
          running, mainT, process_list_, core_mutex_, last_cpu_times,
          last_sutime,
          history_data_, fds, backlog, conn, procs, stopped, procfs_ok,
          sutime, budget, signals, session, nsent, completed, now,
          call, pushes, groups_, process_group_map_, next_group_id_,
          group_mutex_, data_mutex, monT>>

srvVars == <<running_, server_fd_, client_sockets_, clients_mutex_, srv>>
coreVars == <<process_list_, core_mutex_, last_cpu_times, last_sutime,
             completed>>
osVars == <<procs, stopped, procfs_ok, sutime, budget>>
netVars == <<fds, backlog, conn>>
\* state that only direct calls of the library interfaces change
groupVars == <<groups_, process_group_map_, next_group_id_>>
legacyVars == <<data_mutex, monT>>
apiVars == <<now, call, pushes, groupVars, group_mutex_, legacyVars>>


\* The time_point a new entry of last_cpu_times holds: the epoch.  Any
\* other value t stands for a sample taken t - 1 periods ago.
NoTime == 0

Elapsed(last_time) == last_time - 1

\* one period later
Tick(last_time) ==
    IF last_time = NoTime THEN NoTime ELSE Min(last_time + 1, MaxAge + 1)

\* a readProcessCpu that computes a figure without an earlier sample
readProcessCpuNoBaseline(last_time, cpu_time) ==
    (cpu_time * 100) \div (IF last_time = NoTime THEN 1 ELSE Elapsed(last_time))

\* ProcessCore::readProcessCpu lines 391-398: with an earlier sample time
\* the figure is the process's CPU time (pstatus.sutime) over the time
\* since that sample, times 100; without one the record keeps the 0 of
\* its constructor.
readProcessCpu(last_time, cpu_time) ==
    IF last_time # NoTime
    THEN (cpu_time * 100) \div Elapsed(last_time)
    ELSE 0

(***************************************************************************)
(* Values built by the code                                                *)
(***************************************************************************)
\* memory usage reported for a PID (a fixed figure per process)
MemOf(pid) == 100 * pid

\* ProcessInfo, reduced to the fields the server replies with
ProcessInfo(pid, cpu) == [pid |-> pid, cpu |-> cpu, mem |-> MemOf(pid)]

PidsOf(list) == [k \in 1..Len(list) |-> list[k].pid]

NoInfo == [pid |-> NoPid, cpu |-> 0, mem |-> 0]

\* ProcessCore::getProcessById: the first record with that PID
\* a lookup that stops at the wrong end of the list
getProcessByIdLast(list, pid) ==
    IF list = <<>> THEN [pid |-> NoPid, cpu |-> 0, mem |-> 0]
    ELSE list[Len(list)]

getProcessById(list, pid) ==
    LET hits == {k \in 1..Len(list) : list[k].pid = pid}
    IN  IF hits = {} THEN NoInfo
        ELSE list[CHOOSE k \in hits : \A j \in hits : k <= j]

\* create_error_response(error, details): {"error": ..., "details": ...}
\* an error answered with silence, as if the handler returned ""
NoErrorReply(error) == [request_type |-> "", error |-> "", body |-> <<>>]

create_error_response(error) ==
    [request_type |-> "", error |-> error, body |-> <<>>]

\* the encoder's object: {"request_type": ..., <body>}
Response(rt, body) == [request_type |-> rt, error |-> "", body |-> body]

NoResponse == [request_type |-> "", error |-> "", body |-> <<>>]

NoRequest == Request(FALSE, "", NoPid, FALSE, NoStr, NoStr)

\* PIDs a history can be asked about: one more than can be tracked
HistPids == 1..(MaxTracked + 1)

\* struct HistoryEntry: the constructor stamps the entry with the clock
HistoryEntry(cpu, mem) == [cpu |-> cpu, mem |-> mem, timestamp |-> now]

\* ProcessHistory::addEntry without the trim to max_entries_per_process_
addEntryNoTrim(h, pid, cpu, mem) ==
    IF h[pid] = <<>> /\ Cardinality({q \in DOMAIN h : h[q] # <<>>}) >= MaxTracked
    THEN h
    ELSE [h EXCEPT ![pid] = <<HistoryEntry(cpu, mem)>> \o h[pid]]

\* ProcessHistory::addEntry without the test of max_tracked_processes_
addEntryNoLimit(h, pid, cpu, mem) ==
    LET pushed == <<HistoryEntry(cpu, mem)>> \o h[pid]
    IN  [h EXCEPT ![pid] = IF Len(pushed) > MaxEntries
                           THEN SubSeq(pushed, 1, Len(pushed) - 1)
                           ELSE pushed]

\* ProcessHistory::addEntry: a list is in history_data_ exactly when it has
\* entries (operator[] creates it and emplace_front fills it at once)
addEntry(h, pid, cpu, mem) ==
    IF h[pid] = <<>> /\ Cardinality({q \in DOMAIN h : h[q] # <<>>}) >= MaxTracked
    THEN h
    ELSE LET pushed == <<HistoryEntry(cpu, mem)>> \o h[pid]
         IN  [h EXCEPT ![pid] = IF Len(pushed) > MaxEntries
                                THEN SubSeq(pushed, 1, Len(pushed) - 1)
                                ELSE pushed]

RECURSIVE Reverse(_)
Reverse(s) == IF s = <<>> THEN <<>> ELSE Append(Reverse(Tail(s)), Head(s))

\* ProcessHistory::getEntries copying from the back of the list
getEntriesFromBack(h, pid, count) ==
    IF pid \in DOMAIN h
    THEN SubSeq(Reverse(h[pid]), 1, Min(count, Len(h[pid])))
    ELSE <<>>

\* ProcessHistory::getEntries
getEntries(h, pid, count) ==
    IF pid \in DOMAIN h THEN SubSeq(h[pid], 1, Min(count, Len(h[pid]))) ELSE <<>>

\* ProcessHistory::clearProcessHistory and clearAllHistory
clearProcessHistory(h, pid) == [h EXCEPT ![pid] = <<>>]

clearAllHistory == [p \in HistPids |-> <<>>]

NoCall ==
    [op |-> "", pid |-> NoPid, count |-> 0, entries |-> <<>>,
     group_id |-> 0, ok |-> FALSE, value |-> 0, members |-> {}]

(***************************************************************************)
(* ProcessGroup (src/src/ProcessGroup.cpp)                                 *)
(***************************************************************************)
GroupIds == 1..MaxGroupId

\* process_group_map_.find(pid) == end()
NoGroupId == 0

\* what getProcessGroup returns for a PID without group
NOT_IN_GROUP == -1

\* groups_.find(group_id) == end()
NoGroup == [exists |-> FALSE, processes |-> {}]

EmptyGroup == [exists |-> TRUE, processes |-> {}]

\* main.cpp:364-366 creates the groups System, User and Background
DefaultGroups == 3

\* ProcessControl::exists: kill(pid, 0) succeeds
exists(pid) == pid \in procs

\* addProcessToGroup without the probe of the process
addProcessToGroupOkNoProbe(pid, group_id) == groups_[group_id].exists

addProcessToGroupOk(pid, group_id) == groups_[group_id].exists /\ exists(pid)

\* addProcessToGroup without the removal from the previous group
GroupsAfterAddKeepPrevious(pid, group_id) ==
    [groups_ EXCEPT ![group_id].processes = @ \cup {pid}]

\* addProcessToGroup, lines 101-115: groups_ after a successful call
GroupsAfterAdd(pid, group_id) ==
    LET prev_group_id == process_group_map_[pid]
    IN  [g \in GroupIds |->
           IF g = group_id
           THEN [groups_[g] EXCEPT !.processes = @ \cup {pid}]
           ELSE IF /\ prev_group_id # NoGroupId
                   /\ g = prev_group_id
                   /\ groups_[g].exists
                THEN [groups_[g] EXCEPT !.processes = @ \ {pid}]
                ELSE groups_[g]]

\* deleteGroup leaving the members' entries in process_group_map_
MapAfterDeleteKeepEntries(group_id) == process_group_map_

\* deleteGroup, lines 62-66: process_group_map_ without the group's members
MapAfterDelete(group_id) ==
    [p \in PIDs |-> IF p \in groups_[group_id].processes
                    THEN NoGroupId
                    ELSE process_group_map_[p]]

\* getProcessGroup and getProcessesInGroup
getProcessGroup(map, pid) ==
    IF map[pid] # NoGroupId THEN map[pid] ELSE NOT_IN_GROUP

getProcessesInGroup(groups, group_id) ==
    IF groups[group_id].exists THEN groups[group_id].processes ELSE {}

\* updateGroupStats, lines 186-208: members that no longer exist leave
\* their group and the map
GroupsAfterUpdate ==
    [g \in GroupIds |->
       [groups_[g] EXCEPT !.processes = {p \in @ : exists(p)}]]

\* ProcessControl::getProcessInfo (ProcessControl.cpp:301-350) of a live
\* process: memory_usage is procfs_status.stksize, cpu_usage the constant
\* 0.5, here counted as one half of a percent
StkSizeOf(pid) == 10 * pid

BasicProcessInfo(pid) == [cpu_usage |-> 1, memory_usage |-> StkSizeOf(pid)]

RECURSIVE SumOver(_, _)
SumOver(S, f) ==
    IF S = {} THEN 0
    ELSE LET x == CHOOSE y \in S : TRUE
         IN  f[x] + SumOver(S \ {x}, f)

\* the totals of the registry's records of the members, in halves of a
\* percent and in the registry's unit of memory
RegistryTotals(members) ==
    [total_cpu_usage |->
        SumOver(members,
                [p \in PIDs |-> 2 * getProcessById(process_list_, p).cpu]),
     total_memory_usage |->
        SumOver(members,
                [p \in PIDs |-> getProcessById(process_list_, p).mem])]

\* updateGroupStats, lines 181-201: the totals it leaves in group g, added
\* up from getProcessInfo of the members that exist.  Nothing the server
\* runs reads the two fields, so the groups are kept without them.
GroupTotals(g) ==
    LET live == {p \in groups_[g].processes : exists(p)}
    IN  [total_cpu_usage |->
            SumOver(live, [p \in PIDs |-> BasicProcessInfo(p).cpu_usage]),
         total_memory_usage |->
            SumOver(live, [p \in PIDs |-> BasicProcessInfo(p).memory_usage])]

MapAfterUpdate ==
    [p \in PIDs |->
       IF \E g \in GroupIds : p \in groups_[g].processes /\ ~exists(p)
       THEN NoGroupId
       ELSE process_group_map_[p]]

\* ProcessControl::sendSignal: kill(pid, sig) succeeds for a live process
SIGSTOP == "SIGSTOP"
SIGCONT == "SIGCONT"
SIGTERM == "SIGTERM"

SignalOf(rt) ==
    CASE rt = SUSPEND_PROCESS -> SIGSTOP
      [] rt = RESUME_PROCESS -> SIGCONT
      [] OTHER -> SIGTERM

sendSignalOk(pid) == pid \in procs

\* messageHandler taking a request of a process without 'PID' as it comes
EarlyErrorNoPidTest(m) ==
    IF ~m.json THEN "Invalid JSON format"
    ELSE IF m.request_type = "" THEN "Missing or invalid 'request_type'"
    ELSE IF m.request_type = AUTH_LOGIN /\ ~m.has_creds
         THEN "Missing or invalid credentials"
    ELSE IF m.request_type \notin (PidCommands \cup {GET_PROCESSES, AUTH_LOGIN})
         THEN "Unknown request type"
    ELSE ""

\* The requests messageHandler answers before it looks at any shared state:
\* parse failure, no request_type, a missing parameter, an unknown type.
EarlyError(m) ==
    IF ~m.json THEN "Invalid JSON format"
    ELSE IF m.request_type = "" THEN "Missing or invalid 'request_type'"
    ELSE IF m.request_type \in PidCommands /\ m.PID = NoPid
         THEN "Missing or invalid 'PID'"
    ELSE IF m.request_type = AUTH_LOGIN /\ ~m.has_creds
         THEN "Missing or invalid credentials"
    ELSE IF m.request_type \notin (PidCommands \cup {GET_PROCESSES, AUTH_LOGIN})
         THEN "Unknown request type"
    ELSE ""

(***************************************************************************)
(* The bytes of one recv (SocketServer.cpp:360-367).  A buffer is a        *)
(* sequence of chunks: a 4-byte big-endian length, the whole text of a     *)
(* request, or the first or last part of one.  handleClient makes a        *)
(* std::string of the buffer, which ends at the first zero byte, and       *)
(* messageHandler parses that string (main.cpp:102).                       *)
(***************************************************************************)
LenChunk(n) == [kind |-> "len", n |-> n, req |-> NoRequest, part |-> ""]

TextChunk(m, part) == [kind |-> "text", n |-> 0, req |-> m, part |-> part]

\* the buffer of a client that writes the text of one request, unframed
RawJson(m) == <<TextChunk(m, "all")>>

BytesOf(n) ==
    <<n \div 16777216, (n \div 65536) % 256, (n \div 256) % 256, n % 256>>

\* the bytes a JSON parser skips: space, tab, line feed, carriage return
JsonSpace == {32, 9, 10, 13}

\* a text no JSON parser accepts, as a request
NotJson == NoRequest

\* The requests messageHandler can find in the string made of the buffer.
\* What json_decoder_parse_json_str does with bytes after a complete
\* document is not told by the sources: it fails or it stops there.
RECURSIVE Decode(_)
Decode(buffer) ==
    IF buffer = <<>> THEN {NotJson}
    ELSE LET c == Head(buffer)
             bytes == BytesOf(c.n)
         IN  IF c.kind = "len"
             THEN IF \A k \in 1..4 : bytes[k] \in JsonSpace
                  THEN Decode(Tail(buffer))
                  ELSE {NotJson}
             ELSE IF c.part # "all" THEN {NotJson}
             ELSE IF Len(buffer) = 1 THEN {c.req}
             ELSE IF buffer[2].kind = "len" /\ BytesOf(buffer[2].n)[1] = 0
                  THEN {c.req}
                  ELSE {c.req, NotJson}

(***************************************************************************)
(* Initial state: after main() has initialised the modules and             *)
(* SocketServer::init has started the server thread.                       *)
(***************************************************************************)
SrvLocals ==
    [pc |-> "top", read_fds |-> {}, new_socket |-> NoFd,
     i |-> 0, remove |-> {}, sd |-> NoFd, message |-> NoRequest,
     response |-> NoResponse, n |-> 0, acc |-> <<>>, start |-> <<>>,
     tables |-> {}]

NoSession == [auth |-> "none", dispatched |-> 0, replied |-> <<>>]

NoConn == [peer |-> "closed", inbox |-> <<>>, outbox |-> 0]

Init ==
    /\ running_ = TRUE
    /\ server_fd_ = LISTEN_FD
    /\ client_sockets_ = <<>>
    /\ clients_mutex_ = "free"
    /\ srv = SrvLocals
    /\ running = TRUE
    /\ mainT = [pc |-> "loop", todo |-> <<>>, to_remove |-> {}, count |-> 0,
                read |-> {}]
    /\ process_list_ = <<>>
    /\ core_mutex_ = "free"
    /\ last_cpu_times = [p \in PIDs |-> NoTime]
    /\ last_sutime = [p \in PIDs |-> 0]
    /\ history_data_ = clearAllHistory
    /\ now = 0
    /\ call = NoCall
    /\ groups_ = [g \in GroupIds |->
                    IF g <= DefaultGroups THEN EmptyGroup ELSE NoGroup]
    /\ process_group_map_ = [p \in PIDs |-> NoGroupId]
    /\ next_group_id_ = DefaultGroups + 1
    /\ group_mutex_ = "free"
    /\ data_mutex = "free"
    /\ monT = [pc |-> "loop", shutdown_flag |-> FALSE, proc_count |-> 0,
               proc_list |-> {}, last_update_time |-> NoTime, last_pid |-> {},
               response |-> <<>>]
    /\ pushes = [p \in HistPids |-> <<>>]
    /\ fds = [f \in {LISTEN_FD} \cup ClientFds |->
                 IF f = LISTEN_FD THEN "open" ELSE "closed"]
    /\ backlog = 0
    /\ conn = [f \in ClientFds |-> NoConn]
    /\ procs = {1}
    /\ stopped = {}
    /\ procfs_ok = TRUE
    /\ sutime = [p \in PIDs |-> 0]
    /\ budget = 0
    /\ signals = <<>>
    /\ session = [f \in ClientFds |-> NoSession]
    /\ nsent = 0
    /\ completed = <<>>


(***************************************************************************)
(* The server thread: SocketServer::serverLoop                             *)
(***************************************************************************)
\* select() reports a listening socket with a pending connection, and a
\* client socket with unread data or whose peer has closed.
Readable(f) ==
    IF f = LISTEN_FD THEN backlog > 0
    ELSE conn[f].inbox # <<>> \/ conn[f].peer = "closed"

\* close(f) on a client descriptor
ClosedFds(F, f) == [F EXCEPT ![f] = "closed"]
ClosedConn(C, f) == [C EXCEPT ![f] = NoConn]

\* accept() hands out the lowest free descriptor
FreeFds == {f \in ClientFds : fds[f] = "closed"}
LowestFree == CHOOSE f \in FreeFds : \A g \in FreeFds : f <= g

\* lines 232-236: while (running_.load()) { if (server_fd_ == -1) break;
SrvTop ==
    /\ srv.pc = "top"
    /\ srv' = [srv EXCEPT !.pc = IF running_ /\ server_fd_ # NoFd
                                 THEN "fdset" ELSE "done",
                          !.new_socket = NoFd]
    /\ UNCHANGED <<running_, server_fd_, client_sockets_, clients_mutex_,
                   running, mainT, coreVars, history_data_, apiVars, netVars, osVars,
                   signals, session, nsent>>

\* lines 237-248: FD_SET(server_fd_), then the client sockets under the lock
SrvFdSet ==
    /\ srv.pc = "fdset"
    /\ clients_mutex_ = "free"
    /\ srv' = [srv EXCEPT !.pc = "select",
                          !.read_fds = {server_fd_} \cup SeqToSet(client_sockets_)]
    /\ UNCHANGED <<running_, server_fd_, client_sockets_, clients_mutex_,
                   running, mainT, coreVars, history_data_, apiVars, netVars, osVars,
                   signals, session, nsent>>

\* lines 255-273: select with a 1 s timeout; break when not running,
\* continue on an error (a closed descriptor in the set) or a timeout
SrvSelect ==
    /\ srv.pc = "select"
    /\ LET bad   == \E f \in srv.read_fds : f = NoFd \/ fds[f] = "closed"
           ready == {f \in srv.read_fds \ {NoFd} : fds[f] = "open" /\ Readable(f)}
       IN  srv' = IF ~running_
                  THEN [srv EXCEPT !.pc = "done", !.read_fds = {}]
                  ELSE IF bad \/ ready = {}
                  THEN [srv EXCEPT !.pc = "top", !.read_fds = {}]
                  ELSE [srv EXCEPT !.pc = "accept", !.read_fds = ready]
    /\ UNCHANGED <<running_, server_fd_, client_sockets_, clients_mutex_,
                   running, mainT, coreVars, history_data_, apiVars, netVars, osVars,
                   signals, session, nsent>>

\* lines 276-304: FD_ISSET(server_fd_), accept, the checks after accept.
\* server_fd_ is read again here; when shutdown() has set it to -1 the
\* FD_ISSET(-1) reads outside the set and either answer can come back.
SrvAccept ==
    /\ srv.pc = "accept"
    /\ \E isset \in (IF server_fd_ = NoFd THEN BOOLEAN
                     ELSE {server_fd_ \in srv.read_fds}) :
         IF ~isset
         THEN /\ srv' = [srv EXCEPT !.pc = "dispatch"]
              /\ UNCHANGED <<netVars, session>>
         ELSE LET ebadf == server_fd_ = NoFd \/ fds[server_fd_] = "closed"
                  fails == ebadf \/ backlog = 0 \/ FreeFds = {}
              IN  IF fails
                  THEN /\ srv' = [srv EXCEPT !.pc = IF ~running_ \/ ebadf
                                                    THEN "done" ELSE "top",
                                             !.read_fds = {}]
                       /\ UNCHANGED <<netVars, session>>
                  ELSE IF ~running_
                  THEN \* accepted during shutdown: closed again at once
                       /\ backlog' = backlog - 1
                       /\ srv' = [srv EXCEPT !.pc = "done", !.read_fds = {}]
                       /\ UNCHANGED <<fds, conn, session>>
                  ELSE /\ backlog' = backlog - 1
                       /\ fds' = [fds EXCEPT ![LowestFree] = "open"]
                       /\ conn' = [conn EXCEPT ![LowestFree] =
                                     [peer |-> "open", inbox |-> <<>>, outbox |-> 0]]
                       /\ session' = [session EXCEPT ![LowestFree] = NoSession]
                       /\ srv' = [srv EXCEPT !.pc = "add", !.new_socket = LowestFree]
    /\ UNCHANGED <<running_, server_fd_, client_sockets_, clients_mutex_,
                   running, mainT, coreVars, history_data_, apiVars, osVars,
                   signals, nsent>>

\* lines 306-317: under clients_mutex_, keep the socket if there is room,
\* else close it and continue
HasRoomOffByOne(list) == Len(list) <= MAX_CLIENTS

addClient(list, f) == Append(list, f)

HasRoom(list) == Len(list) < MAX_CLIENTS

SrvAdd ==
    /\ srv.pc = "add"
    /\ clients_mutex_ = "free"
    /\ IF HasRoom(client_sockets_)
       THEN /\ client_sockets_' = addClient(client_sockets_, srv.new_socket)
            /\ srv' = [srv EXCEPT !.pc = "dispatch", !.new_socket = NoFd]
            /\ UNCHANGED netVars
       ELSE /\ fds' = ClosedFds(fds, srv.new_socket)
            /\ conn' = ClosedConn(conn, srv.new_socket)
            /\ srv' = [srv EXCEPT !.pc = "top", !.read_fds = {}]
            /\ UNCHANGED <<client_sockets_, backlog>>
    /\ UNCHANGED <<running_, server_fd_, clients_mutex_, running, mainT,
                   coreVars, history_data_, apiVars, osVars, signals, session, nsent>>

\* lines 321-323: take clients_mutex_ for the dispatch loop
SrvDispatch ==
    /\ srv.pc = "dispatch"
    /\ clients_mutex_ = "free"
    /\ clients_mutex_' = "server"
    /\ srv' = [srv EXCEPT !.pc = "iter", !.i = 1, !.remove = {}]
    /\ UNCHANGED <<running_, server_fd_, client_sockets_, running, mainT,
                   coreVars, history_data_, apiVars, netVars, osVars, signals,
                   session, nsent>>

RemoveAll(list, gone) == SelectSeq(list, LAMBDA f : f \notin gone)

\* lines 324-345 and handleClient lines 360-364, 382-398: the next socket of
\* the list; recv on a ready one; after the loop erase the sockets found
\* disconnected and release the lock
SrvIter ==
    /\ srv.pc = "iter"
    /\ IF srv.i > Len(client_sockets_)
       THEN /\ client_sockets_' = RemoveAll(client_sockets_, srv.remove)
            /\ clients_mutex_' = "free"
            /\ srv' = [srv EXCEPT !.pc = "top", !.i = 0, !.remove = {},
                                  !.read_fds = {}]
            /\ UNCHANGED <<netVars, session>>
       ELSE LET sd == client_sockets_[srv.i] IN
            IF sd \notin srv.read_fds
            THEN /\ srv' = [srv EXCEPT !.i = srv.i + 1]
                 /\ UNCHANGED <<client_sockets_, clients_mutex_, netVars, session>>
            ELSE IF conn[sd].inbox # <<>>
            THEN \* valread > 0: the message goes to message_handler_
                 /\ conn' = [conn EXCEPT ![sd].inbox = Tail(conn[sd].inbox)]
                 /\ session' = [session EXCEPT ![sd].dispatched = @ + 1]
                 /\ \E m \in Decode(Head(conn[sd].inbox)) :
                       srv' = [srv EXCEPT !.pc = "handle", !.sd = sd,
                                          !.message = m]
                 /\ UNCHANGED <<client_sockets_, clients_mutex_, fds, backlog>>
            ELSE \* valread == 0: the peer has closed; close(client_socket)
                 /\ conn[sd].peer = "closed"
                 /\ fds' = ClosedFds(fds, sd)
                 /\ conn' = ClosedConn(conn, sd)
                 /\ session' = [session EXCEPT ![sd] = NoSession]
                 /\ srv' = [srv EXCEPT !.pc = "peek", !.sd = sd]
                 /\ UNCHANGED <<client_sockets_, clients_mutex_, backlog>>
    /\ UNCHANGED <<running_, server_fd_, running, mainT, coreVars,
                   history_data_, apiVars, osVars, signals, nsent>>


(***************************************************************************)
(* messageHandler (main.cpp:96-306), called inline by handleClient         *)
(***************************************************************************)
\* The role of the record that made ValidateLogin return true.
GrantedRole(username, password) ==
    LET k == MatchLine(LoginFileLines, username, password, 1)
    IN  IF FromString(LoginFileLines[k]).type = ADMIN THEN "admin" ELSE "viewer"

\* a failed Login that also drops what the session had been granted
SessionAfterDrop(s, m, authenticated) ==
    IF authenticated
    THEN [s EXCEPT !.auth = IF m.username = <<"r">> THEN "admin" ELSE "viewer"]
    ELSE [s EXCEPT !.auth = "none"]

\* The session after a request has been handled: only a Login answered
\* with authenticated = true changes what the session has been granted.
SessionAfter(s, m, authenticated) ==
    IF authenticated
    THEN [s EXCEPT !.auth = GrantedRole(m.username, m.password)]
    ELSE s

\* Login branch, main.cpp:260-281
LoginResponse(m) ==
    Response(AUTH_LOGIN,
             [authenticated |-> ValidateLogin(TRUE, LoginFileLines,
                                              m.username, m.password)])

\* a control branch that reports success whatever kill returned
ControlResponseAlwaysOk(m) ==
    Response(m.request_type, [pid |-> m.PID, success |-> TRUE])

\* Suspend/Resume/Terminate branches, main.cpp:218-259
ControlResponse(m) ==
    Response(m.request_type, [pid |-> m.PID, success |-> sendSignalOk(m.PID)])

\* a SIGTERM that leaves the process running
ProcsKept(sig, pid) == procs

\* The effect of a delivered signal on the process table of the OS
ProcsAfter(sig, pid) == IF sig = SIGTERM THEN procs \ {pid} ELSE procs
StoppedAfter(sig, pid) ==
    IF sig = SIGSTOP THEN stopped \cup {pid} ELSE stopped \ {pid}

\* the text of the "error" member added when the PID is unknown
PROCESS_NOT_FOUND == "Process not found"

\* a branch that never looks whether the lookup found the PID
SimpleResponseNoCheck(m) ==
    LET info == getProcessById(process_list_, m.PID)
    IN  [request_type |-> m.request_type, error |-> "",
         body |-> [pid |-> m.PID, found |-> TRUE,
                   cpu_usage |-> info.cpu, ram_usage |-> info.mem]]

\* GetSimpleProcessDetails branch, main.cpp:148-178: the reply object
\* carries the record's members when the PID is found and an "error"
\* member otherwise
SimpleResponse(m) ==
    LET info == getProcessById(process_list_, m.PID)
    IN  IF info # NoInfo
        THEN Response(m.request_type,
                      [pid |-> m.PID, found |-> TRUE,
                       cpu_usage |-> info.cpu, ram_usage |-> info.mem])
        ELSE [Response(m.request_type,
                       [pid |-> m.PID, found |-> FALSE,
                        cpu_usage |-> 0, ram_usage |-> 0])
                EXCEPT !.error = PROCESS_NOT_FOUND]

\* GetDetailedProcessDetails branch, main.cpp:179-217: the history after the
\* push of the current sample, and the reply read back from it
DetailedHistory(m) ==
    LET info == getProcessById(process_list_, m.PID)
    IN  IF info # NoInfo
        THEN addEntry(history_data_, m.PID, info.cpu, info.mem)
        ELSE history_data_

\* the reply read from the history as it was before the push
DetailedResponseBeforePush(m) ==
    Response(m.request_type,
             [pid |-> m.PID,
              entries |-> getEntries(history_data_, m.PID, 60)])

DetailedResponse(m) ==
    Response(m.request_type,
             [pid |-> m.PID,
              entries |-> getEntries(DetailedHistory(m), m.PID, 60)])

\* One call of message_handler_ for every request but GetProcesses.
\* getProcessById takes ProcessCore::mutex_, so the two detail requests
\* wait while a rescan holds it.
SrvHandle ==
    /\ srv.pc = "handle"
    /\ srv.message.request_type # GET_PROCESSES \/ EarlyError(srv.message) # ""
    /\ LET m == srv.message
           e == EarlyError(m)
       IN
       IF e # ""
       THEN /\ srv' = [srv EXCEPT !.pc = "send",
                                  !.response = create_error_response(e)]
            /\ UNCHANGED <<history_data_, apiVars, osVars, signals, session>>
       ELSE IF m.request_type = AUTH_LOGIN
       THEN /\ srv' = [srv EXCEPT !.pc = "send", !.response = LoginResponse(m)]
            /\ session' = [session EXCEPT ![srv.sd] =
                             SessionAfter(@, m, LoginResponse(m).body.authenticated)]
            /\ UNCHANGED <<history_data_, apiVars, osVars, signals>>
       ELSE IF m.request_type \in ControlCommands
       THEN /\ srv' = [srv EXCEPT !.pc = "send", !.response = ControlResponse(m)]
            /\ IF sendSignalOk(m.PID)
               THEN /\ signals' = Append(signals, <<m.PID, SignalOf(m.request_type)>>)
                    /\ procs' = ProcsAfter(SignalOf(m.request_type), m.PID)
                    /\ stopped' = StoppedAfter(SignalOf(m.request_type), m.PID)
                    /\ UNCHANGED <<procfs_ok, sutime, budget>>
               ELSE UNCHANGED <<osVars, signals>>
            /\ UNCHANGED <<history_data_, apiVars, session>>
       ELSE IF m.request_type = GET_SIMPLE_DETAILS
       THEN /\ core_mutex_ = "free"
            /\ srv' = [srv EXCEPT !.pc = "send", !.response = SimpleResponse(m)]
            /\ UNCHANGED <<history_data_, apiVars, osVars, signals, session>>
       ELSE /\ core_mutex_ = "free"
            /\ history_data_' = DetailedHistory(m)
            /\ UNCHANGED apiVars
            /\ srv' = [srv EXCEPT !.pc = "send", !.response = DetailedResponse(m)]
            /\ UNCHANGED <<osVars, signals, session>>
    /\ UNCHANGED <<running_, server_fd_, client_sockets_, clients_mutex_,
                   running, mainT, coreVars, netVars, nsent>>

\* GetProcesses branch, main.cpp:135-147: getProcessList() returns a
\* reference to process_list_ without taking ProcessCore::mutex_, and the
\* range-for walks it from begin() to the end() it read at the start.
SrvListBegin ==
    /\ srv.pc = "handle"
    /\ srv.message.request_type = GET_PROCESSES
    /\ EarlyError(srv.message) = ""
    /\ srv' = [srv EXCEPT !.pc = "list", !.n = Len(process_list_),
                          !.acc = <<>>, !.start = PidsOf(process_list_),
                          !.tables = {completed}]
    /\ UNCHANGED <<running_, server_fd_, client_sockets_, clients_mutex_,
                   running, mainT, coreVars, history_data_, apiVars, netVars, osVars,
                   signals, session, nsent>>

GarbagePid == NoPid - 1

\* What the walk can find in slot k: the record now stored there, or, when
\* a concurrent rescan has cleared the vector and not yet refilled the
\* slot, the bytes of the destroyed record or whatever replaced them.
ReadSlot(k) ==
    IF k <= Len(process_list_) THEN {process_list_[k].pid}
    ELSE {srv.start[k], GarbagePid}

SrvList ==
    /\ srv.pc = "list"
    /\ IF Len(srv.acc) = srv.n
       THEN srv' = [srv EXCEPT !.pc = "send", !.n = 0, !.start = <<>>,
                               !.response = Response(GET_PROCESSES,
                                                     [pids |-> srv.acc])]
       ELSE \E v \in ReadSlot(Len(srv.acc) + 1) :
               srv' = [srv EXCEPT !.acc = Append(srv.acc, v)]
    /\ UNCHANGED <<running_, server_fd_, client_sockets_, clients_mutex_,
                   running, mainT, coreVars, history_data_, apiVars, netVars, osVars,
                   signals, session, nsent>>

\* SocketServer::send (lines 187-199), called by handleClient line 375:
\* a blocking ::send.  It waits while the socket's send buffer is full and
\* fails when the peer is gone.
CanSend(c) == c.peer = "closed" \/ c.outbox < SendBuf

SrvSend ==
    /\ srv.pc = "send"
    /\ IF srv.response = NoResponse
       THEN \* handleClient line 374: an empty response is not sent
            UNCHANGED <<conn, session>>
       ELSE /\ CanSend(conn[srv.sd])
            /\ IF conn[srv.sd].peer = "open"
               THEN conn' = [conn EXCEPT ![srv.sd].outbox = @ + 1]
               ELSE UNCHANGED conn
            /\ IF fds[srv.sd] = "open"
               THEN session' = [session EXCEPT ![srv.sd].replied =
                                  Append(@, session[srv.sd].dispatched)]
               ELSE UNCHANGED session
    /\ srv' = [srv EXCEPT !.pc = "peek"]
    /\ UNCHANGED <<running_, server_fd_, client_sockets_, clients_mutex_,
                   running, mainT, coreVars, history_data_, apiVars, fds, backlog,
                   osVars, signals, nsent>>

\* lines 329-335: recv(sd, MSG_PEEK | MSG_DONTWAIT) <= 0 with errno other
\* than EAGAIN/EWOULDBLOCK marks the socket for removal.  On a closed
\* descriptor recv fails with EBADF; with nothing to read it fails with
\* EAGAIN; at end of stream it returns 0 and leaves errno as it was, so the
\* socket is removed or kept depending on an earlier call.
SrvPeek ==
    /\ srv.pc = "peek"
    /\ \E gone \in (IF fds[srv.sd] = "closed" THEN {TRUE}
                    ELSE IF conn[srv.sd].inbox # <<>> THEN {FALSE}
                    ELSE IF conn[srv.sd].peer = "closed" THEN BOOLEAN
                    ELSE {FALSE}) :
         srv' = [srv EXCEPT !.pc = "iter", !.i = srv.i + 1, !.sd = NoFd,
                            !.message = NoRequest, !.response = NoResponse,
                            !.acc = <<>>, !.tables = {},
                            !.remove = IF gone THEN srv.remove \cup {srv.sd}
                                       ELSE srv.remove]
    /\ UNCHANGED <<running_, server_fd_, client_sockets_, clients_mutex_,
                   running, mainT, coreVars, history_data_, apiVars, netVars, osVars,
                   signals, session, nsent>>


(***************************************************************************)
(* The main thread: the monitoring loop of main() (main.cpp:377-405) and   *)
(* the shutdown that follows it (main.cpp:407-415)                         *)
(***************************************************************************)
SortedPids == <<1, 2>>

\* line 377: while (running.load())
MainLoop ==
    /\ mainT.pc = "loop"
    /\ mainT' = [mainT EXCEPT !.pc = IF running THEN "collect" ELSE "shutdown"]
    /\ UNCHANGED <<srvVars, running, coreVars, history_data_, apiVars, netVars,
                   osVars, signals, session, nsent>>

\* ProcessCore::collectInfo lines 101-111: lock, clear the list, then fail
\* with -1 when /proc cannot be found
\* collectInfo without line 102
KeptList(list) == list

ClearedList(list) == <<>>

\* what collectInfo returns in the catch block, line 144
COLLECT_FAILED == -1

CollectBegin ==
    /\ mainT.pc = "collect"
    /\ core_mutex_ = "free"
    /\ process_list_' = ClearedList(process_list_)
    /\ IF procfs_ok
       THEN /\ core_mutex_' = "main"
            /\ mainT' = [mainT EXCEPT !.pc = "scan", !.todo = SortedPids,
                                      !.read = {}]
       ELSE /\ core_mutex_' = "free"
            /\ mainT' = [mainT EXCEPT !.pc = "stats", !.read = {},
                                      !.count = COLLECT_FAILED]
    /\ UNCHANGED <<srvVars, running, last_cpu_times, last_sutime, completed,
                   history_data_, apiVars, netVars, osVars, signals, session, nsent>>

\* the tables a GetProcesses walk in progress could legitimately report
NoteCompleted(s, table) ==
    IF s.pc \in {"list", "send"}
    THEN [s EXCEPT !.tables = s.tables \cup {table}]
    ELSE s

\* ProcessCore::collectInfo lines 113-145: one directory entry per step.
\* readProcessInfo (lines 281-294) succeeds for a live process;
\* readProcessCpu (lines 373-405) leaves cpu at 0 for a PID it has no
\* earlier time for.  A failure of the directory walk is caught and -1
\* returned with the list as far as it was built.
CollectScan ==
    /\ mainT.pc = "scan"
    /\ IF ~procfs_ok
       THEN /\ core_mutex_' = "free"
            /\ mainT' = [mainT EXCEPT !.pc = "stats", !.todo = <<>>,
                                      !.count = COLLECT_FAILED]
            /\ UNCHANGED <<process_list_, last_cpu_times, last_sutime, completed,
                           srv>>
       ELSE IF mainT.todo = <<>>
       THEN /\ core_mutex_' = "free"
            /\ completed' = PidsOf(process_list_)
            /\ srv' = NoteCompleted(srv, PidsOf(process_list_))
            /\ mainT' = [mainT EXCEPT !.pc = "stats",
                                      !.count = Len(process_list_)]
            /\ UNCHANGED <<process_list_, last_cpu_times, last_sutime>>
       ELSE LET pid == Head(mainT.todo) IN
            /\ mainT' = [mainT EXCEPT !.todo = Tail(mainT.todo),
                                      !.read = IF pid \in procs
                                               THEN @ \cup {pid} ELSE @]
            /\ IF pid \in procs
               THEN /\ process_list_' =
                         Append(process_list_,
                                ProcessInfo(pid, readProcessCpu(last_cpu_times[pid],
                                                                sutime[pid])))
                    /\ last_cpu_times' = [last_cpu_times EXCEPT ![pid] = 1]
                    /\ last_sutime' = [last_sutime EXCEPT ![pid] = sutime[pid]]
               ELSE UNCHANGED <<process_list_, last_cpu_times, last_sutime>>
            /\ UNCHANGED <<core_mutex_, completed, srv>>
    /\ UNCHANGED <<running_, server_fd_, client_sockets_, clients_mutex_,
                   running, history_data_, apiVars, netVars, osVars, signals,
                   session, nsent>>

\* line 387: proc_group.updateGroupStats()
MainStats ==
    /\ mainT.pc = "stats"
    /\ mainT' = [mainT EXCEPT !.pc = "hist"]
    /\ groups_' = GroupsAfterUpdate
    /\ process_group_map_' = MapAfterUpdate
    /\ UNCHANGED <<srvVars, running, coreVars, history_data_, now, call,
                   pushes, next_group_id_, group_mutex_, legacyVars, netVars, osVars,
                   signals, session, nsent>>

\* updateGroupStats as server/ProcessGroup.cpp has it: under the group
\* mutex it asks ProcessCore::getProcessById for every live member, which
\* takes the registry mutex for the lookup.
\* The members in the order of the two loops: groups by id (std::map), the
\* PIDs of a group ascending (std::set)
MemberSlots ==
    [i \in 1..(MaxGroupId * Cardinality(PIDs)) |->
        <<((i - 1) \div Cardinality(PIDs)) + 1,
          ((i - 1) % Cardinality(PIDs)) + 1>>]

IsMember(slot) ==
    groups_[slot[1]].exists /\ slot[2] \in groups_[slot[1]].processes

\* ~lock_guard keeping the mutex locked
StillLocked(owner) == owner

\* ~lock_guard at the end of getProcessById: the mutex is unlocked
Unlocked(owner) == "free"

\* line 128: std::lock_guard<std::mutex> lock(mutex_)
StatsLock ==
    /\ mainT.pc = "stats"
    /\ group_mutex_ = "free"
    /\ group_mutex_' = "main"
    /\ mainT' = [mainT EXCEPT !.pc = "member",
                              !.todo = SelectSeq(MemberSlots, IsMember),
                              !.to_remove = {}]
    /\ UNCHANGED <<srvVars, running, coreVars, history_data_, now, call,
                   pushes, groupVars, legacyVars, netVars, osVars, signals, session,
                   nsent>>

\* lines 138-147: a member that no longer exists is unmapped and noted for
\* removal; for a live one getProcessById locks the registry
StatsMember ==
    /\ mainT.pc = "member"
    /\ mainT.todo # <<>>
    /\ LET slot == Head(mainT.todo) IN
       IF ~exists(slot[2])
       THEN /\ process_group_map_' =
                  [process_group_map_ EXCEPT ![slot[2]] = NoGroupId]
            /\ mainT' = [mainT EXCEPT !.todo = Tail(mainT.todo),
                                      !.to_remove = @ \cup {slot}]
            /\ UNCHANGED core_mutex_
       ELSE /\ core_mutex_ = "free"
            /\ core_mutex_' = "main"
            /\ mainT' = [mainT EXCEPT !.pc = "lookup"]
            /\ UNCHANGED process_group_map_
    /\ UNCHANGED <<srvVars, running, process_list_, last_cpu_times, last_sutime,
                   completed,
                   history_data_, now, call, pushes, groups_, next_group_id_,
                   group_mutex_, legacyVars, netVars, osVars, signals, session, nsent>>

\* ProcessCore::getProcessById lines 192-200 and its return: the lookup,
\* then the registry is unlocked and the totals are added up (148-153)
StatsLookup ==
    /\ mainT.pc = "lookup"
    /\ core_mutex_' = Unlocked(core_mutex_)
    /\ mainT' = [mainT EXCEPT !.pc = "member", !.todo = Tail(mainT.todo)]
    /\ UNCHANGED <<srvVars, running, process_list_, last_cpu_times, last_sutime,
                   completed,
                   history_data_, apiVars, netVars, osVars, signals, session,
                   nsent>>

\* lines 157-162: the noted members leave their groups, the group mutex is
\* unlocked
StatsUnlock ==
    /\ mainT.pc = "member"
    /\ mainT.todo = <<>>
    /\ groups_' = [g \in GroupIds |->
                     [groups_[g] EXCEPT
                        !.processes =
                            {p \in @ : <<g, p>> \notin mainT.to_remove}]]
    /\ group_mutex_' = "free"
    /\ mainT' = [mainT EXCEPT !.pc = "hist", !.to_remove = {}]
    /\ UNCHANGED <<srvVars, running, coreVars, history_data_, now, call,
                   pushes, process_group_map_, next_group_id_, legacyVars, netVars, osVars,
                   signals, session, nsent>>

\* the loop of lines 390-394 adding two entries per record
RECURSIVE PushAllTwice(_, _)
PushAllTwice(h, list) ==
    IF list = <<>> THEN h
    ELSE PushAllTwice(addEntry(addEntry(h, Head(list).pid, Head(list).cpu,
                                        Head(list).mem),
                               Head(list).pid, Head(list).cpu, Head(list).mem),
                      Tail(list))

RECURSIVE PushAll(_, _)
PushAll(h, list) ==
    IF list = <<>> THEN h
    ELSE PushAll(addEntry(h, Head(list).pid, Head(list).cpu, Head(list).mem),
                 Tail(list))

\* lines 390-394: one history entry per record of the process list
MainHist ==
    /\ mainT.pc = "hist"
    /\ history_data_' = PushAll(history_data_, process_list_)
    /\ UNCHANGED apiVars
    /\ mainT' = [mainT EXCEPT !.pc = "sleep"]
    /\ UNCHANGED <<srvVars, running, coreVars, netVars, osVars, signals,
                   session, nsent>>

\* line 404: sleep_for(2s)
\* One period passes: the remembered sample times grow older and the
\* processors have NCPU periods of CPU time to give.
MainSleep ==
    /\ mainT.pc = "sleep"
    /\ mainT' = [mainT EXCEPT !.pc = "loop"]
    /\ last_cpu_times' = [p \in PIDs |-> Tick(last_cpu_times[p])]
    /\ budget' = NCPU
    /\ UNCHANGED <<srvVars, running, process_list_, core_mutex_, last_sutime,
                   completed,
                   history_data_, apiVars, netVars, procs, stopped, procfs_ok, sutime,
                   signals, session, nsent>>

\* SocketServer::shutdown line 151: running_.exchange(false)
ShutdownFlag ==
    /\ mainT.pc = "shutdown"
    /\ running_' = FALSE
    /\ mainT' = [mainT EXCEPT !.pc = IF running_ THEN "sd_listen" ELSE "sd_rest"]
    /\ UNCHANGED <<server_fd_, client_sockets_, clients_mutex_, srv, running,
                   coreVars, history_data_, apiVars, netVars, osVars, signals,
                   session, nsent>>

\* lines 156-159: close the listening socket and set server_fd_ to -1
ShutdownListen ==
    /\ mainT.pc = "sd_listen"
    /\ IF server_fd_ # NoFd
       THEN /\ fds' = ClosedFds(fds, server_fd_)
            /\ backlog' = 0
            /\ server_fd_' = NoFd
       ELSE UNCHANGED <<fds, backlog, server_fd_>>
    /\ mainT' = [mainT EXCEPT !.pc = "sd_clients"]
    /\ UNCHANGED <<running_, client_sockets_, clients_mutex_, srv, running,
                   coreVars, history_data_, apiVars, conn, osVars, signals,
                   session, nsent>>

\* lines 162-168: under clients_mutex_, close every client socket and
\* clear the list
ShutdownClients ==
    /\ mainT.pc = "sd_clients"
    /\ clients_mutex_ = "free"
    /\ fds' = [f \in DOMAIN fds |->
                 IF f \in SeqToSet(client_sockets_) THEN "closed" ELSE fds[f]]
    /\ conn' = [f \in DOMAIN conn |->
                 IF f \in SeqToSet(client_sockets_) THEN NoConn ELSE conn[f]]
    /\ session' = [f \in DOMAIN session |->
                 IF f \in SeqToSet(client_sockets_) THEN NoSession
                 ELSE session[f]]
    /\ client_sockets_' = <<>>
    /\ mainT' = [mainT EXCEPT !.pc = "sd_join"]
    /\ UNCHANGED <<running_, server_fd_, clients_mutex_, srv, running,
                   coreVars, history_data_, apiVars, backlog, osVars, signals, nsent>>

\* lines 171-173: join the server thread; shutdown() returns
ShutdownJoin ==
    /\ mainT.pc = "sd_join"
    /\ srv.pc = "done"
    /\ mainT' = [mainT EXCEPT !.pc = "sd_rest"]
    /\ UNCHANGED <<srvVars, running, coreVars, history_data_, apiVars, netVars,
                   osVars, signals, session, nsent>>

(***************************************************************************)
(* SocketServer::init and shutdown called one after the other              *)
(***************************************************************************)
\* the caller starts a call of init or shutdown
LifecycleCall(op) ==
    /\ mainT.pc = "loop"
    /\ mainT' = [mainT EXCEPT !.pc = op]
    /\ UNCHANGED <<srvVars, running, coreVars, history_data_, apiVars, netVars,
                   osVars, signals, session, nsent>>

\* where init can fail: socket (line 90), setsockopt (99), bind (114),
\* listen (125)
InitOutcomes == {"ok", "socket", "setsockopt", "bind", "listen"}

\* an init whose failure paths leave server_fd_ as socket() set it
ServerFdKept(outcome) == IF outcome = "socket" THEN NoFd ELSE LISTEN_FD

\* server_fd_ when init returns: the new socket, or -1 after a failure
ServerFdAfterInit(outcome) == IF outcome = "ok" THEN LISTEN_FD ELSE NoFd

\* SocketServer::init lines 81-139.  A running server returns true at once.
\* Otherwise the socket is created, configured, bound and made to listen;
\* a failure closes it and returns false; success sets running_ and starts
\* the server thread.
ServerInit(outcome) ==
    /\ mainT.pc = "init"
    /\ mainT' = [mainT EXCEPT !.pc = "loop"]
    /\ IF running_
       THEN /\ call' = [NoCall EXCEPT !.op = "init", !.ok = TRUE, !.value = 1]
            /\ UNCHANGED <<srvVars, fds>>
       ELSE /\ call' = [NoCall EXCEPT !.op = "init", !.ok = (outcome = "ok")]
            /\ server_fd_' = ServerFdAfterInit(outcome)
            /\ fds' = [fds EXCEPT ![LISTEN_FD] =
                         IF outcome = "ok" THEN "open" ELSE "closed"]
            /\ running_' = (outcome = "ok")
            /\ srv' = IF outcome = "ok" THEN SrvLocals ELSE srv
            /\ UNCHANGED <<client_sockets_, clients_mutex_>>
    /\ UNCHANGED <<running, coreVars, history_data_, now, pushes, groupVars,
                   group_mutex_, legacyVars, backlog, conn, osVars, signals,
                   session, nsent>>

\* shutdown() returns to its caller
ShutdownReturn ==
    /\ mainT.pc = "sd_rest"
    /\ mainT' = [mainT EXCEPT !.pc = "loop"]
    /\ call' = [NoCall EXCEPT !.op = "shutdown"]
    /\ UNCHANGED <<srvVars, running, coreVars, history_data_, now, pushes,
                   groupVars, group_mutex_, legacyVars, netVars, osVars,
                   signals, session, nsent>>

\* main.cpp:410-415: ProcessHistory::shutdown clears the history,
\* ProcessGroup::shutdown the groups and ProcessCore::shutdown the process
\* list; main returns
MainExit ==
    /\ mainT.pc = "sd_rest"
    /\ core_mutex_ = "free"
    /\ history_data_' = clearAllHistory
    /\ groups_' = [g \in GroupIds |-> NoGroup]
    /\ process_group_map_' = [p \in PIDs |-> NoGroupId]
    /\ UNCHANGED <<now, call, pushes, next_group_id_, group_mutex_, legacyVars>>
    /\ process_list_' = <<>>
    /\ mainT' = [mainT EXCEPT !.pc = "exited"]
    /\ UNCHANGED <<srvVars, running, core_mutex_, last_cpu_times, last_sutime,
                   completed,
                   netVars, osVars, signals, session, nsent>>

(***************************************************************************)
(* The environment                                                         *)
(***************************************************************************)
\* signalHandler (main.cpp:77-83) on SIGINT/SIGTERM
Signal ==
    /\ running
    /\ running' = FALSE
    /\ UNCHANGED <<srvVars, mainT, coreVars, history_data_, apiVars, netVars, osVars,
                   signals, session, nsent>>

\* a client connects: the connection waits in the listen queue
ClientConnect ==
    /\ fds[LISTEN_FD] = "open"
    /\ backlog = 0
    /\ backlog' = 1
    /\ UNCHANGED <<srvVars, running, mainT, coreVars, history_data_, apiVars, fds,
                   conn, osVars, signals, session, nsent>>

Pending == {f \in ClientFds : conn[f].inbox # <<>>}

\* a connected client writes bytes that reach the server as one buffer
ClientWrite(f, buffer) ==
    /\ fds[f] = "open"
    /\ conn[f].peer = "open"
    /\ conn[f].inbox = <<>>
    /\ Cardinality(Pending) < MaxPending
    /\ nsent < MaxRequests
    /\ conn' = [conn EXCEPT ![f].inbox = <<buffer>>]
    /\ nsent' = nsent + 1
    /\ UNCHANGED <<srvVars, running, mainT, coreVars, history_data_, apiVars, fds,
                   backlog, osVars, signals, session>>

\* a connected client sends one request as the text of its JSON object
ClientSend(f, m) == ClientWrite(f, RawJson(m))

\* a client reads one reply from its socket
ClientRecv(f) ==
    /\ conn[f].outbox > 0
    /\ conn' = [conn EXCEPT ![f].outbox = @ - 1]
    /\ UNCHANGED <<srvVars, running, mainT, coreVars, history_data_, apiVars, fds,
                   backlog, osVars, signals, session, nsent>>

\* a client closes its end of the connection
ClientClose(f) ==
    /\ fds[f] = "open"
    /\ conn[f].peer = "open"
    /\ conn' = [conn EXCEPT ![f].peer = "closed", ![f].outbox = 0]
    /\ UNCHANGED <<srvVars, running, mainT, coreVars, history_data_, apiVars, fds,
                   backlog, osVars, signals, session, nsent>>

\* processes start and exit on their own
ProcStart(p) ==
    /\ p \notin procs
    /\ procs' = procs \cup {p}
    /\ sutime' = [sutime EXCEPT ![p] = 0]
    /\ UNCHANGED <<srvVars, running, mainT, coreVars, history_data_, apiVars, netVars,
                   stopped, procfs_ok, budget, signals, session, nsent>>

ProcExit(p) ==
    /\ p \in procs
    /\ procs' = procs \ {p}
    /\ stopped' = stopped \ {p}
    /\ sutime' = [sutime EXCEPT ![p] = 0]
    /\ UNCHANGED <<srvVars, running, mainT, coreVars, history_data_, apiVars, netVars,
                   procfs_ok, budget, signals, session, nsent>>

\* a live process runs for one period of CPU time
ProcRun(p) ==
    /\ p \in procs
    /\ p \notin stopped
    /\ budget > 0
    /\ sutime[p] < MaxCpu
    /\ sutime' = [sutime EXCEPT ![p] = @ + 1]
    /\ budget' = budget - 1
    /\ UNCHANGED <<srvVars, running, mainT, coreVars, history_data_, apiVars, netVars,
                   procs, stopped, procfs_ok, signals, session, nsent>>

\* /proc becomes unreadable, or readable again
ProcFsToggle ==
    /\ procfs_ok' = ~procfs_ok
    /\ UNCHANGED <<srvVars, running, mainT, coreVars, history_data_, apiVars, netVars,
                   procs, stopped, sutime, budget, signals, session, nsent>>

ServerStep ==
    \/ SrvTop \/ SrvFdSet \/ SrvSelect \/ SrvAccept \/ SrvAdd
    \/ SrvDispatch \/ SrvIter \/ SrvHandle \/ SrvListBegin \/ SrvList
    \/ SrvSend \/ SrvPeek

MainStep ==
    \/ MainLoop \/ CollectBegin \/ CollectScan \/ MainStats \/ MainHist
    \/ MainSleep \/ ShutdownFlag \/ ShutdownListen \/ ShutdownClients
    \/ ShutdownJoin \/ MainExit

\* everything but the history, the clock and the record of direct calls
progVars == <<srvVars, running, mainT, coreVars, netVars, osVars, signals,
              session, nsent, groupVars, group_mutex_, legacyVars>>

\* system_clock::now() moves on
ClockTick ==
    /\ now < MaxNow
    /\ now' = now + 1
    /\ UNCHANGED <<progVars, history_data_, call, pushes>>

EnvStep ==
    \/ Signal
    \/ ClientConnect
    \/ \E f \in ClientFds : \E m \in Requests : ClientSend(f, m)
    \/ \E f \in ClientFds : ClientRecv(f)
    \/ \E f \in ClientFds : ClientClose(f)
    \/ \E p \in PIDs : ProcStart(p)
    \/ \E p \in PIDs : ProcExit(p)
    \/ \E p \in PIDs : ProcRun(p)
    \/ ProcFsToggle
    \/ ClockTick

Next == ServerStep \/ MainStep \/ EnvStep

Spec == Init /\ [][Next]_vars

(***************************************************************************)
(* ProcessHistory called directly: any thread may call addEntry,           *)
(* getEntries, clearProcessHistory and clearAllHistory; each holds         *)
(* ProcessHistory::mutex_ from its first statement to its return, so a     *)
(* call is one step.                                                       *)
(***************************************************************************)
CpuSamples == {50}
GetCounts == {1, 60}

\* whether the history has room for an entry of pid, told from the calls
\* made so far
Tracked(pid) == pushes[pid] # <<>>
Accepted(pid) ==
    Tracked(pid) \/ Cardinality({q \in HistPids : Tracked(q)}) < MaxTracked

HistAdd(pid, cpu, mem) ==
    /\ Len(pushes[pid]) < MaxPushes
    /\ history_data_' = addEntry(history_data_, pid, cpu, mem)
    /\ pushes' = IF Accepted(pid)
                 THEN [pushes EXCEPT ![pid] = Append(@, HistoryEntry(cpu, mem))]
                 ELSE pushes
    /\ call' = [NoCall EXCEPT !.op = "addEntry", !.pid = pid]
    /\ UNCHANGED <<progVars, now>>

HistGet(pid, count) ==
    /\ call' = [op |-> "getEntries", pid |-> pid, count |-> count,
                entries |-> getEntries(history_data_, pid, count)]
    /\ UNCHANGED <<progVars, history_data_, now, pushes>>

HistClearProcess(pid) ==
    /\ history_data_' = clearProcessHistory(history_data_, pid)
    /\ pushes' = [pushes EXCEPT ![pid] = <<>>]
    /\ call' = [NoCall EXCEPT !.op = "clearProcessHistory", !.pid = pid]
    /\ UNCHANGED <<progVars, now>>

HistClearAll ==
    /\ history_data_' = clearAllHistory
    /\ pushes' = [p \in HistPids |-> <<>>]
    /\ call' = [NoCall EXCEPT !.op = "clearAllHistory"]
    /\ UNCHANGED <<progVars, now>>

HistoryNext ==
    \/ \E pid \in HistPids : \E cpu \in CpuSamples : HistAdd(pid, cpu, MemOf(pid))
    \/ \E pid \in HistPids : \E count \in GetCounts : HistGet(pid, count)
    \/ \E pid \in HistPids : HistClearProcess(pid)
    \/ HistClearAll
    \/ ClockTick

HistorySpec == Init /\ [][HistoryNext]_vars

(***************************************************************************)
(* ProcessGroup called directly.  Every operation below holds              *)
(* ProcessGroup::mutex_ from its first statement to its return, so a call  *)
(* is one step.                                                            *)
(***************************************************************************)
\* everything but the groups and the record of the call
groupRest == <<srvVars, running, mainT, coreVars, netVars, osVars, signals,
               session, nsent, history_data_, now, pushes, group_mutex_,
               legacyVars>>

GroupCall(op, pid, group_id, ok) ==
    [NoCall EXCEPT !.op = op, !.pid = pid, !.group_id = group_id, !.ok = ok]

\* createGroup handing out the lowest id no group has
LowestFreeGroupId ==
    CHOOSE g \in GroupIds :
        /\ ~groups_[g].exists
        /\ \A h \in GroupIds : ~groups_[h].exists => g <= h

\* createGroup, line 46: int group_id = next_group_id_++
NewGroupId == next_group_id_

GroupCreate ==
    /\ next_group_id_ <= MaxGroupId
    /\ groups_' = [groups_ EXCEPT ![NewGroupId] = EmptyGroup]
    /\ next_group_id_' = next_group_id_ + 1
    /\ call' = [GroupCall("createGroup", NoPid, NewGroupId, TRUE)
                  EXCEPT !.value = NewGroupId]
    /\ UNCHANGED <<groupRest, process_group_map_>>

GroupDelete(group_id) ==
    /\ IF groups_[group_id].exists
       THEN /\ process_group_map_' = MapAfterDelete(group_id)
            /\ groups_' = [groups_ EXCEPT ![group_id] = NoGroup]
       ELSE UNCHANGED <<groups_, process_group_map_>>
    /\ call' = [GroupCall("deleteGroup", NoPid, group_id,
                          groups_[group_id].exists)
                  EXCEPT !.members = groups_[group_id].processes]
    /\ UNCHANGED <<groupRest, next_group_id_>>

GroupAdd(pid, group_id) ==
    /\ IF addProcessToGroupOk(pid, group_id)
       THEN /\ groups_' = GroupsAfterAdd(pid, group_id)
            /\ process_group_map_' = [process_group_map_ EXCEPT ![pid] = group_id]
       ELSE UNCHANGED <<groups_, process_group_map_>>
    /\ call' = [GroupCall("addProcessToGroup", pid, group_id,
                          addProcessToGroupOk(pid, group_id))
                  EXCEPT !.value = IF addProcessToGroupOk(pid, group_id)
                                   THEN process_group_map_[pid]
                                   ELSE NoGroupId]
    /\ UNCHANGED <<groupRest, next_group_id_>>

GroupRemove(pid, group_id) ==
    LET erased == groups_[group_id].exists /\ pid \in groups_[group_id].processes
    IN  /\ IF erased
           THEN /\ groups_' = [groups_ EXCEPT ![group_id].processes = @ \ {pid}]
                /\ process_group_map_' =
                      [process_group_map_ EXCEPT ![pid] = NoGroupId]
           ELSE UNCHANGED <<groups_, process_group_map_>>
        /\ call' = GroupCall("removeProcessFromGroup", pid, group_id, erased)
        /\ UNCHANGED <<groupRest, next_group_id_>>

GroupOf(pid) ==
    /\ call' = [GroupCall("getProcessGroup", pid, 0, TRUE)
                  EXCEPT !.value = getProcessGroup(process_group_map_, pid)]
    /\ UNCHANGED <<groupRest, groupVars>>

GroupMembers(group_id) ==
    /\ call' = [GroupCall("getProcessesInGroup", NoPid, group_id, TRUE)
                  EXCEPT !.members = getProcessesInGroup(groups_, group_id)]
    /\ UNCHANGED <<groupRest, groupVars>>

GroupUpdateStats ==
    /\ groups_' = GroupsAfterUpdate
    /\ process_group_map_' = MapAfterUpdate
    /\ call' = GroupCall("updateGroupStats", NoPid, 0, TRUE)
    /\ UNCHANGED <<groupRest, next_group_id_>>

GroupNext ==
    \/ GroupCreate
    \/ \E g \in GroupIds : GroupDelete(g)
    \/ \E p \in PIDs : \E g \in GroupIds : GroupAdd(p, g)
    \/ \E p \in PIDs : \E g \in GroupIds : GroupRemove(p, g)
    \/ \E p \in PIDs : GroupOf(p)
    \/ \E g \in GroupIds : GroupMembers(g)
    \/ GroupUpdateStats
    \/ \E p \in PIDs : ProcStart(p)
    \/ \E p \in PIDs : ProcExit(p)

GroupSpec == Init /\ [][GroupNext]_vars

(***************************************************************************)
(* Authenticator called directly on lines of a credential file.            *)
(***************************************************************************)
\* what can follow the third colon of a line
RoleTails ==
    { <<>>, <<"0">>, <<"1">>, <<"7">>, <<"x">>, <<"1", "x">>, <<"0", "1">>,
      <<"-", "1">>, <<" ", "1">>, <<"1", ":", "e">> }

\* lines for a user with salt s: the hash of password p or another, any
\* tail; lines with fewer fields; the blank line
CredLines ==
    { u \o <<":">> \o h \o <<":", "s", ":">> \o t :
        u \in {<<"a">>, <<"b">>},
        h \in {<<"s", "$", "p">>, <<"s", "$", "z">>},
        t \in RoleTails }
    \cup { <<>>, <<"a">>, <<"a", ":", "s", "$", "p">>,
           <<"a", ":", "s", "$", "p", ":", "s">> }

\* a well-formed line of another user: root, admin, password q, salt t
RootLine == <<"r", ":", "t", "$", "q", ":", "t", ":", "1">>

CredParse(line) ==
    /\ call' = [NoCall EXCEPT !.op = "FromString",
                              !.entries = line,
                              !.ok = FromString(line).valid,
                              !.value = IF FromString(line).valid
                                        THEN FromString(line).type ELSE 0]
    /\ UNCHANGED <<progVars, history_data_, now, pushes>>

\* ValidateLogin over a file of the line and root's line; the role is the
\* one messageHandler grants
CredLogin(line, password) ==
    LET file == <<line, RootLine>>
        k == MatchLine(file, <<"a">>, password, 1)
    IN  /\ call' = [NoCall EXCEPT
                      !.op = "ValidateLogin",
                      !.entries = line,
                      !.count = k,
                      !.ok = ValidateLogin(TRUE, file, <<"a">>, password),
                      !.value = IF k # 0 THEN FromString(file[k]).type ELSE 0]
        /\ UNCHANGED <<progVars, history_data_, now, pushes>>

CredentialNext ==
    \/ \E line \in CredLines : CredParse(line)
    \/ \E line \in CredLines : \E password \in {<<"p">>, <<"q">>} :
          CredLogin(line, password)

CredentialSpec == Init /\ [][CredentialNext]_vars


(***************************************************************************)
(* Narrower specifications: the same actions, with the environment kept to *)
(* what the properties checked under each of them are about                *)
(***************************************************************************)
\* the requests that read the process table
ListRequests ==
    {m \in Requests : \/ m.request_type = GET_PROCESSES
                      \/ m.request_type = GET_SIMPLE_DETAILS /\ m.PID # NoPid}

SamplerStep ==
    \/ MainLoop \/ CollectBegin \/ CollectScan \/ MainStats \/ MainHist
    \/ MainSleep

\* Sessions: one client at a time connects, sends any request, reads the
\* replies and leaves, while the server thread serves it.
SessionNext ==
    \/ ServerStep
    \/ (FreeFds = ClientFds /\ ClientConnect)
    \/ \E f \in ClientFds : \E m \in Requests : ClientSend(f, m)
    \/ \E f \in ClientFds : ClientRecv(f)
    \/ \E f \in ClientFds : ClientClose(f)

SessionSpec == Init /\ [][SessionNext]_vars

\* Admission: clients connect, ask for the process list and leave.
AdmissionNext ==
    \/ ServerStep
    \/ ClientConnect
    \/ \E f \in ClientFds : \E m \in ListRequests : ClientSend(f, m)
    \/ \E f \in ClientFds : ClientRecv(f)
    \/ \E f \in ClientFds : ClientClose(f)

AdmissionSpec == Init /\ [][AdmissionNext]_vars

\* Sampler: the main loop rescans while processes come and go and /proc
\* fails.
SamplerNext ==
    \/ SamplerStep
    \/ \E p \in PIDs : ProcStart(p)
    \/ \E p \in PIDs : ProcExit(p)
    \/ ProcFsToggle

SamplerSpec == Init /\ [][SamplerNext]_vars

\* CPU accounting: the main loop rescans while the processes use CPU time
\* and a second process starts and exits.
CpuNext ==
    \/ SamplerStep
    \/ \E p \in PIDs : ProcRun(p)
    \/ ProcStart(2)
    \/ ProcExit(2)

CpuSpec == Init /\ [][CpuNext]_vars

\* Registry: the sampler rescans while processes come and go and /proc
\* fails, and clients ask for the process list.
RegistryNext ==
    \/ ServerStep
    \/ SamplerStep
    \/ (FreeFds = ClientFds /\ ClientConnect)
    \/ \E f \in ClientFds : \E m \in ListRequests : ClientSend(f, m)
    \/ \E f \in ClientFds : ClientRecv(f)
    \/ \E f \in ClientFds : ClientClose(f)
    \/ ProcStart(2)
    \/ ProcExit(2)

RegistrySpec == Init /\ [][RegistryNext]_vars

\* History requests: the sampler rescans and records history while a second
\* process starts and a client asks for the list and for detailed histories.
DetailRequests ==
    {m \in Requests : m.request_type = GET_PROCESSES}
    \cup { Request(TRUE, GET_DETAILED_DETAILS, p, FALSE, NoStr, NoStr) :
              p \in PIDs }

DetailNext ==
    \/ ServerStep
    \/ SamplerStep
    \/ (FreeFds = ClientFds /\ ClientConnect)
    \/ \E f \in ClientFds : \E m \in DetailRequests : ClientSend(f, m)
    \/ \E f \in ClientFds : ClientRecv(f)
    \/ \E f \in ClientFds : ClientClose(f)
    \/ ProcStart(2)

DetailSpec == Init /\ [][DetailNext]_vars

\* Group statistics: the sampler rescans and recomputes the statistics of
\* the groups while processes come and go, join a group and /proc fails.
StatsNext ==
    \/ SamplerStep
    \/ \E p \in PIDs : GroupAdd(p, 1)
    \/ \E p \in PIDs : ProcStart(p)
    \/ \E p \in PIDs : ProcExit(p)
    \/ ProcFsToggle

StatsSpec == Init /\ [][StatsNext]_vars

\* Control: the sampler rescans and process 1 is put in group 1 while one
\* client at a time sends Suspend, Resume and Terminate requests for it.
ControlRequests ==
    {m \in Requests : m.request_type \in ControlCommands /\ m.PID # NoPid}

\* the server thread; no GetProcesses request is sent here, so the list
\* branch is not among its steps
ControlServerStep ==
    \/ SrvTop \/ SrvFdSet \/ SrvSelect \/ SrvAccept \/ SrvAdd
    \/ SrvDispatch \/ SrvIter \/ SrvHandle \/ SrvSend \/ SrvPeek

ControlNext ==
    \/ ControlServerStep
    \/ SamplerStep
    \/ (FreeFds = ClientFds /\ ClientConnect)
    \/ \E f \in ClientFds : \E m \in ControlRequests : ClientSend(f, m)
    \/ \E f \in ClientFds : ClientRecv(f)
    \/ \E f \in ClientFds : ClientClose(f)
    \/ GroupAdd(1, 1)

ControlSpec == Init /\ [][ControlNext]_vars

\* Locks: the sampler rescans and recomputes the group statistics with the
\* nested lookup, while a group gains a member, the process exits and comes
\* back, and a client asks for the list and for the details of the process.
LockStep ==
    \/ MainLoop \/ CollectBegin \/ CollectScan \/ StatsLock \/ StatsMember
    \/ StatsLookup \/ StatsUnlock \/ MainHist \/ MainSleep

LockRequests ==
    {Request(TRUE, GET_SIMPLE_DETAILS, 1, FALSE, NoStr, NoStr),
     Request(TRUE, GET_PROCESSES, NoPid, FALSE, NoStr, NoStr)}

LockNext ==
    \/ ServerStep
    \/ LockStep
    \/ (FreeFds = ClientFds /\ ClientConnect)
    \/ \E f \in ClientFds : \E m \in LockRequests : ClientSend(f, m)
    \/ \E f \in ClientFds : ClientRecv(f)
    \/ (group_mutex_ = "free" /\ GroupAdd(1, 1))
    \/ ProcExit(1)
    \/ ProcStart(1)

LockSpec == Init /\ [][LockNext]_vars

(***************************************************************************)
(* The console monitor: main of proc-monitor.c over proc_core.c            *)
(***************************************************************************)
\* everything but the monitor's own state
monRest == <<srvVars, running, mainT, coreVars, netVars, osVars, signals,
             session, nsent, groupVars, group_mutex_, history_data_, now,
             call, pushes>>

\* proc-monitor.c line 114: while (!shutdown_flag)
MonLoop ==
    /\ monT.pc = "loop"
    /\ monT' = [monT EXCEPT !.pc = IF monT.shutdown_flag THEN "exited"
                                   ELSE "lock"]
    /\ UNCHANGED <<monRest, data_mutex>>

\* line 116: proc_core_mutex_lock(), pthread_mutex_lock(&data_mutex)
MonLock ==
    /\ monT.pc = "lock"
    /\ data_mutex = "free"
    /\ data_mutex' = "main"
    /\ monT' = [monT EXCEPT !.pc = "collect"]
    /\ UNCHANGED monRest

\* data_mutex is a PTHREAD_MUTEX_INITIALIZER mutex (proc_core.c:46).  What
\* pthread_mutex_lock does when the caller owns it is undefined: it never
\* returns, or it returns EDEADLK at once.
RelockOutcomes == {"blocks", "EDEADLK"}

\* line 129 calls proc_collect_info, whose first statement (proc_core.c
\* line 120) locks data_mutex, which the caller took at line 116; the
\* return value is not looked at
MonRelock ==
    /\ monT.pc = "collect"
    /\ data_mutex = "main"
    /\ \E outcome \in RelockOutcomes :
          monT' = [monT EXCEPT !.pc = IF outcome = "blocks" THEN "blocked"
                                     ELSE "opendir"]
    /\ UNCHANGED <<monRest, data_mutex>>

\* proc_core.c lines 131-137: opendir("/proc"); on failure unlock and
\* return -1
MonOpendir ==
    /\ monT.pc = "opendir"
    /\ IF procfs_ok
       THEN /\ monT' = [monT EXCEPT !.pc = "scan"]
            /\ UNCHANGED data_mutex
       ELSE /\ monT' = [monT EXCEPT !.pc = "group"]
            /\ data_mutex' = "free"
    /\ UNCHANGED monRest

\* proc_core.c lines 140-377: one record per process, proc_count set, the
\* mutex unlocked
MonScan ==
    /\ monT.pc = "scan"
    /\ monT' = [monT EXCEPT !.pc = "group", !.proc_count = Cardinality(procs),
                             !.proc_list = procs, !.last_update_time = now,
                             !.last_pid = @ \cup procs]
    /\ data_mutex' = "free"
    /\ UNCHANGED monRest

\* proc-monitor.c line 134: proc_group_collect_info(), which locks and
\* unlocks group_mutex (proc_group.c 113-150)
MonGroup ==
    /\ monT.pc = "group"
    /\ monT' = [monT EXCEPT !.pc = "display"]
    /\ UNCHANGED <<monRest, data_mutex>>

\* lines 144-145: proc_display_info() locks and unlocks data_mutex
\* (proc_core.c 441-466), then proc_group_display_info()
MonDisplay ==
    /\ monT.pc = "display"
    /\ data_mutex = "free"
    /\ monT' = [monT EXCEPT !.pc = "unlock"]
    /\ UNCHANGED <<monRest, data_mutex>>

\* line 152: proc_core_mutex_unlock()
MonUnlock ==
    /\ monT.pc = "unlock"
    /\ data_mutex' = "free"
    /\ monT' = [monT EXCEPT !.pc = "sleep"]
    /\ UNCHANGED monRest

\* lines 155-159: nanosleep
MonSleep ==
    /\ monT.pc = "sleep"
    /\ monT' = [monT EXCEPT !.pc = "loop"]
    /\ UNCHANGED <<monRest, data_mutex>>

\* signal_handler, lines 40-45
MonSignal ==
    /\ ~monT.shutdown_flag
    /\ monT' = [monT EXCEPT !.shutdown_flag = TRUE]
    /\ UNCHANGED <<monRest, data_mutex>>

\* proc_collect_info (proc_core.c 110-380) called by a thread that does
\* not hold data_mutex: the first call sets last_update_time; when /proc
\* opens, the table and proc_count are rewritten from the directory, every
\* PID read gets a slot of last_pid, and last_update_time becomes the time
\* of the call.
proc_collect_info(t) ==
    IF procfs_ok
    THEN [t EXCEPT !.proc_count = Cardinality(procs), !.proc_list = procs,
                   !.last_update_time = now, !.last_pid = @ \cup procs]
    ELSE [t EXCEPT !.last_update_time = IF @ = NoTime THEN now ELSE @]

\* socket_server.c process_message, lines 339-344: handle_get_processes
\* (84-121) and handle_simple_process_details (127-181) both begin with
\* proc_collect_info() and build the reply from the table it leaves.
LegacyRead(rt, pid) ==
    /\ data_mutex = "free"
    /\ LET t == proc_collect_info(monT) IN
       monT' = [t EXCEPT !.response =
                  IF rt = GET_PROCESSES
                  THEN <<rt, IF procfs_ok THEN t.proc_list ELSE {}>>
                  ELSE <<rt, pid, procfs_ok /\ pid \in t.proc_list>>]
    /\ UNCHANGED <<monRest, data_mutex>>

MonitorStep ==
    \/ MonLoop \/ MonLock \/ MonRelock \/ MonOpendir \/ MonScan \/ MonGroup
    \/ MonDisplay \/ MonUnlock \/ MonSleep

\* Monitor: the console monitor samples while processes come and go, /proc
\* fails and the signal arrives.
MonitorNext ==
    \/ MonitorStep
    \/ MonSignal
    \/ \E p \in PIDs : ProcStart(p)
    \/ \E p \in PIDs : ProcExit(p)
    \/ ProcFsToggle

MonitorSpec == Init /\ [][MonitorNext]_vars

\* LegacyServer: the clients of the C socket server send read requests
\* while processes come and go, /proc fails and the clock moves on.
LegacyServerNext ==
    \/ LegacyRead(GET_PROCESSES, NoPid)
    \/ \E p \in PIDs : LegacyRead(GET_SIMPLE_DETAILS, p)
    \/ \E p \in PIDs : ProcStart(p)
    \/ \E p \in PIDs : ProcExit(p)
    \/ ProcFsToggle
    \/ ClockTick

LegacyServerSpec == Init /\ [][LegacyServerNext]_vars

\* the monitor's thread is scheduled whenever it can take a step
MonitorLive == MonitorSpec /\ WF_vars(MonitorStep)

\* Framing: one client at a time writes framed and unframed requests, whole,
\* in parts and two at a time, with well-formed and ill-formed lengths.
OneMiB == 2^20

ListRequest == Request(TRUE, GET_PROCESSES, NoPid, FALSE, NoStr, NoStr)

\* declared lengths: none, a payload's, above the limit, and the length
\* whose four bytes are spaces
FrameLengths == {0, 30, OneMiB + 1, 538976288}

WireBuffers ==
    { <<LenChunk(n)>> : n \in {0, OneMiB + 1} }
    \cup { <<LenChunk(n), TextChunk(ListRequest, "all")>> : n \in FrameLengths }
    \cup { <<TextChunk(ListRequest, part)>> : part \in {"all", "head", "tail"} }
    \cup { <<LenChunk(30), TextChunk(ListRequest, "head")>>,
           <<TextChunk(ListRequest, "all"), TextChunk(ListRequest, "all")>>,
           <<LenChunk(30), TextChunk(ListRequest, "all"),
             LenChunk(30), TextChunk(ListRequest, "all")>> }

FramingNext ==
    \/ ServerStep
    \/ (FreeFds = ClientFds /\ ClientConnect)
    \/ \E f \in ClientFds : \E b \in WireBuffers : ClientWrite(f, b)
    \/ \E f \in ClientFds : ClientRecv(f)
    \/ \E f \in ClientFds : ClientClose(f)

FramingSpec == Init /\ [][FramingNext]_vars

\* Shutdown: the signal arrives while a client connects and is served.
ShutdownNext ==
    \/ ServerStep
    \/ MainStep
    \/ Signal
    \/ (FreeFds = ClientFds /\ ClientConnect)
    \/ \E f \in ClientFds : \E m \in ListRequests : ClientSend(f, m)
    \/ \E f \in ClientFds : ClientRecv(f)
    \/ \E f \in ClientFds : ClientClose(f)

ShutdownSpec == Init /\ [][ShutdownNext]_vars

\* Lifecycle: init and shutdown are called again and again, each init
\* succeeding or failing at any of its steps, while the server thread runs
\* and one client at a time connects and sends read requests.
LifecycleNext ==
    \/ ServerStep
    \/ \E op \in {"init", "shutdown"} : LifecycleCall(op)
    \/ \E outcome \in InitOutcomes : ServerInit(outcome)
    \/ ShutdownFlag \/ ShutdownListen \/ ShutdownClients \/ ShutdownJoin
    \/ ShutdownReturn
    \/ (FreeFds = ClientFds /\ ClientConnect)
    \/ \E f \in ClientFds : \E m \in ListRequests : ClientSend(f, m)
    \/ \E f \in ClientFds : ClientRecv(f)
    \/ \E f \in ClientFds : ClientClose(f)

LifecycleSpec == Init /\ [][LifecycleNext]_vars


(***************************************************************************)
(* Properties                                                              *)
(***************************************************************************)
\* the request the server thread has just answered, and its session
Handled == srv.pc = "send" /\ EarlyError(srv.message) = ""

\* a credential record with this username whose stored hash is the hash of
\* this password under the record's salt
RecordMatches(line, username, password) ==
    LET e == FromString(line)
    IN  /\ e.valid
        /\ e.username = username
        /\ generate_hash(password, e.salt) = e.hash

\* C1: a request other than Login that arrives on a session that has not
\* logged in is answered with an error and not executed.
C1_UnauthenticatedRejected ==
    ( /\ Handled
      /\ srv.message.request_type # AUTH_LOGIN
      /\ session[srv.sd].auth = "none" )
    => srv.response.error # ""

\* C2: a Login is answered authenticated = true only when some record of
\* the credential file has the submitted username and a hash equal to the
\* hash of the submitted password under that record's salt.
C2_LoginNeedsMatchingRecord ==
    ( /\ Handled
      /\ srv.message.request_type = AUTH_LOGIN
      /\ srv.response.body.authenticated )
    => \E k \in 1..Len(LoginFileLines) :
          RecordMatches(LoginFileLines[k], srv.message.username,
                        srv.message.password)

\* C3: SuspendProcess, ResumeProcess and TerminateProcess are carried out
\* only for a session that logged in as an admin; a viewer's request is
\* answered with an error and no signal is sent.
C3_ViewerCannotControl ==
    ( /\ Handled
      /\ srv.message.request_type \in ControlCommands
      /\ session[srv.sd].auth = "viewer" )
    => srv.response.error # ""


\* a Login the server turns down: the credentials are missing or
\* ValidateLogin returns false for them
FailedLogin(m) ==
    /\ m.json
    /\ m.request_type = AUTH_LOGIN
    /\ (m.has_creds =>
          ~ValidateLogin(TRUE, LoginFileLines, m.username, m.password))

ReportsFailure(r) ==
    r # NoResponse /\ (r.error # "" \/ ~r.body.authenticated)

InFlight(f) ==
    IF srv.sd = f /\ srv.pc \in {"handle", "list", "send"} THEN 1 ELSE 0

ShutdownReturned == mainT.pc \in {"sd_rest", "exited"}

\* C7: once the shutdown signal has been handled and shutdown() has
\* returned, the server thread has left its loop and the client list is
\* empty.
C7_ShutdownEmptiesClientList ==
    ShutdownReturned => (srv.pc = "done" /\ client_sockets_ = <<>>)

\* the server thread is inside a ::send that cannot complete until the
\* client reads
BlockedInSend ==
    /\ srv.pc = "send"
    /\ srv.response # NoResponse
    /\ ~CanSend(conn[srv.sd])

\* C8: a client that does not read its replies holds up its own session
\* only: while the server waits in a send to one client, no other tracked
\* client has a request waiting to be read.
C8_SlowClientStallsOnlyItself ==
    \A f \in SeqToSet(client_sockets_) :
       ~( /\ BlockedInSend
          /\ f # srv.sd
          /\ fds[f] = "open"
          /\ conn[f].inbox # <<>> )

\* C9: a rescan that fails leaves the process table as the last successful
\* rescan built it: whenever no rescan is in progress the table holds the
\* PIDs of the last completed rescan.
C9_FailedRescanKeepsTable ==
    mainT.pc \in {"stats", "hist", "sleep", "loop", "collect"}
    => PidsOf(process_list_) = completed

\* the tables a rescan now in progress can complete to: what it has built
\* so far, followed by some of the entries it has still to visit
RECURSIVE SubSeqs(_)
SubSeqs(q) ==
    IF q = <<>> THEN {<<>>}
    ELSE SubSeqs(Tail(q)) \cup {<<Head(q)>> \o t : t \in SubSeqs(Tail(q))}

NewTables ==
    IF mainT.pc = "scan"
    THEN {PidsOf(process_list_) \o t : t \in SubSeqs(mainT.todo)}
    ELSE {}

\* C10: a GetProcesses reply lists a complete table: the one of the last
\* rescan completed before the handler began to read, or of a rescan
\* completed while it was reading, or the one the rescan in progress at
\* the end of the read completes to.
C10_ReaderSeesCompleteTable ==
    ( /\ Handled
      /\ srv.message.request_type = GET_PROCESSES )
    => srv.response.body.pids \in (srv.tables \cup NewTables)


\* the server thread answers a GetSimpleProcessDetails request in this step
SimpleStep ==
    /\ srv.pc = "handle"
    /\ srv'.pc = "send"
    /\ EarlyError(srv.message) = ""
    /\ srv.message.request_type = GET_SIMPLE_DETAILS

\* C11: the record in a GetSimpleProcessDetails reply is one the process
\* table held at the instant the handler read it, between the arrival of
\* the request and the sending of the reply, whatever the sampler does in
\* between; the reply says "not found" only when the table held no record
\* of the PID at that instant.
C11_SimpleReadsHeldRecord ==
    [][ SimpleStep =>
          LET r == srv'.response.body IN
          /\ r.pid = srv.message.PID
          /\ core_mutex_ = "free"
          /\ IF r.found
             THEN \E k \in 1..Len(process_list_) :
                     process_list_[k] =
                        [pid |-> r.pid, cpu |-> r.cpu_usage, mem |-> r.ram_usage]
             ELSE \A k \in 1..Len(process_list_) :
                     process_list_[k].pid # r.pid ]_vars

\* a reply carries PID 1's record while a later rescan has already cleared
\* the table
C11_Witness ==
    /\ srv.pc = "send"
    /\ srv.message.request_type = GET_SIMPLE_DETAILS
    /\ srv.response.error = ""
    /\ srv.response.body.found
    /\ mainT.pc = "scan"
    /\ process_list_ = <<>>


InRegistry(pid) == \E k \in 1..Len(process_list_) : process_list_[k].pid = pid

Appends == Len(process_list_') = Len(process_list_) + 1

LastRecord(list) == list[Len(list)]

\* C13: the record a rescan produces for a PID for which no earlier sample
\* time is remembered has cpu 0, whatever CPU time the process has used.
C13_FirstSampleIsZero ==
    [][ ( /\ Appends
          /\ last_cpu_times[LastRecord(process_list_').pid] = NoTime )
        => LastRecord(process_list_').cpu = 0 ]_vars

\* a process that had used CPU time before its first sample has just been
\* given a record with cpu 0
C13_Witness ==
    /\ mainT.pc = "scan"
    /\ process_list_ # <<>>
    /\ budget = NCPU
    /\ LastRecord(process_list_).cpu = 0
    /\ sutime[LastRecord(process_list_).pid] > 0

\* C14: every record of the process table has a cpu figure between 0 and
\* 100 times the number of processors.
C14_CpuWithinBounds ==
    \A k \in 1..Len(process_list_) :
       /\ process_list_[k].cpu >= 0
       /\ process_list_[k].cpu <= 100 * NCPU


\* ---- ProcessHistory ----
TrackedPids == {p \in HistPids : history_data_[p] # <<>>}

\* C15: whatever calls of addEntry, getEntries and the clear operations were
\* made, no PID's history has more than max_entries_per_process_ entries, no
\* reply of getEntries has more, and at most max_tracked_processes_ PIDs have
\* a history.
C15_HistoryBounded ==
    /\ \A p \in HistPids : Len(history_data_[p]) <= MaxEntries
    /\ Len(call.entries) <= MaxEntries
    /\ Cardinality(TrackedPids) <= MaxTracked

\* both limits are reached: a PID with more pushes than the limit of entries
\* is read back while as many PIDs are tracked as can be
C15_Witness ==
    /\ Cardinality(TrackedPids) = MaxTracked
    /\ call.op = "getEntries"
    /\ Len(call.entries) = MaxEntries
    /\ Len(pushes[call.pid]) > MaxEntries

\* a step that is a call getEntries(pid, count)
GetStep ==
    /\ call'.op = "getEntries"
    /\ call' # call
    /\ UNCHANGED <<history_data_, pushes, now>>

LastOf(s, k) == SubSeq(s, Len(s) - k + 1, Len(s))

NonDecreasing(s) ==
    \A i, j \in 1..Len(s) : i < j => s[i].timestamp <= s[j].timestamp

NonIncreasing(s) ==
    \A i, j \in 1..Len(s) : i < j => s[i].timestamp >= s[j].timestamp

AddStep(pid) ==
    /\ call'.op = "addEntry"
    /\ call'.pid = pid
    /\ now' = now

\* C17: addEntry for a PID without history while max_tracked_processes_
\* PIDs are tracked changes nothing; addEntry for a PID that has a history
\* puts the new entry into it whatever the number of tracked PIDs.
C17_FullHistoryIgnoresNewPid ==
    [][ \A pid \in HistPids :
          AddStep(pid) =>
            IF pid \in TrackedPids
            THEN /\ Head(history_data_'[pid]).timestamp = now
                 /\ \A q \in HistPids \ {pid} :
                       history_data_'[q] = history_data_[q]
            ELSE Cardinality(TrackedPids) >= MaxTracked
                   => history_data_' = history_data_ ]_vars

\* an entry was refused: the PID of the last addEntry has no history while
\* the others, all tracked, still take entries
C17_Witness ==
    /\ call.op = "addEntry"
    /\ call.pid \notin TrackedPids
    /\ Cardinality(TrackedPids) = MaxTracked
    /\ \E q \in TrackedPids : Len(pushes[q]) >= 2


\* ---- GetDetailedProcessDetails ----
DetailStep ==
    /\ srv.pc = "handle" /\ srv'.pc = "send"
    /\ EarlyError(srv.message) = ""
    /\ srv.message.request_type = GET_DETAILED_DETAILS

\* the registry's record of pid as a history entry taken now
SampleOf(pid) ==
    LET k == CHOOSE i \in 1..Len(process_list_) :
                 /\ process_list_[i].pid = pid
                 /\ \A j \in 1..(i - 1) : process_list_[j].pid # pid
    IN  [cpu |-> process_list_[k].cpu, mem |-> process_list_[k].mem,
         timestamp |-> now]

HasRoomFor(pid) ==
    pid \in TrackedPids \/ Cardinality(TrackedPids) < MaxTracked

MembersOf(groups, g) == groups[g].processes

GroupIndexConsistent ==
    \A p \in PIDs :
      /\ Cardinality({g \in GroupIds : p \in MembersOf(groups_, g)}) <= 1
      /\ \A g \in GroupIds :
            p \in MembersOf(groups_, g) <=> process_group_map_[p] = g

\* a step that is a call addProcessToGroup(pid, group_id) returning true
GroupAddStep ==
    /\ call'.op = "addProcessToGroup"
    /\ call'.ok
    /\ procs' = procs

\* C19: in every state each PID is a member of at most one group and
\* process_group_map_ names exactly the group whose member set holds the
\* PID; after addProcessToGroup(p, g) returned true, g's members contain p,
\* getProcessGroup(p) is g and no other group has p as a member.
C19_OneGroupPerPid ==
    /\ []GroupIndexConsistent
    /\ [][ GroupAddStep
           => LET p == call'.pid
                  g == call'.group_id
              IN  /\ p \in getProcessesInGroup(groups_', g)
                  /\ getProcessGroup(process_group_map_', p) = g
                  /\ \A h \in GroupIds \ {g} :
                        p \notin getProcessesInGroup(groups_', h) ]_vars

\* a process was moved: the last addProcessToGroup found it in another
\* group, which still exists and no longer has it
C19_Witness ==
    /\ call.op = "addProcessToGroup"
    /\ call.ok
    /\ call.value \in GroupIds \ {call.group_id}
    /\ groups_[call.value].exists
    /\ call.pid \notin groups_[call.value].processes
    /\ call.pid \in groups_[call.group_id].processes
    /\ process_group_map_[call.pid] = call.group_id

\* a step that is a call deleteGroup(group_id) returning true
GroupDeleteStep ==
    /\ call'.op = "deleteGroup"
    /\ call'.ok
    /\ groups_[call'.group_id].exists
    /\ ~groups_'[call'.group_id].exists

GroupCreateStep ==
    /\ call'.op = "createGroup"
    /\ next_group_id_' # next_group_id_

GroupAddCall ==
    /\ call'.op = "addProcessToGroup"
    /\ procs' = procs

\* C22: addProcessToGroup(pid, group_id) for a group_id that is no group, or
\* for a PID that does not exist, returns false and changes neither a
\* member set nor process_group_map_.
C22_RejectedAddChangesNothing ==
    [][ GroupAddCall
        => ((~groups_[call'.group_id].exists \/ call'.pid \notin procs)
              => /\ ~call'.ok
                 /\ UNCHANGED <<groups_, process_group_map_, next_group_id_>>)
    ]_vars

\* an add was refused for a dead process although its group exists, while
\* the index has a member to lose
C22_Witness ==
    /\ call.op = "addProcessToGroup"
    /\ ~call.ok
    /\ groups_[call.group_id].exists
    /\ call.pid \notin procs
    /\ \E g \in GroupIds : groups_[g].processes # {}


\* ---- framing ----
\* the server thread is about to recv from a ready client with bytes waiting
AtRecv ==
    /\ srv.pc = "iter"
    /\ srv.i <= Len(client_sockets_)
    /\ client_sockets_[srv.i] \in srv.read_fds
    /\ conn[client_sockets_[srv.i]].inbox # <<>>

RecvBuffer == Head(conn[client_sockets_[srv.i]].inbox)

BadLength(buffer) ==
    /\ Head(buffer).kind = "len"
    /\ Head(buffer).n = 0 \/ Head(buffer).n > OneMiB

\* C23: when the bytes received start with a length of 0 or of more than
\* 1 MiB, the server closes the socket, gives nothing to messageHandler and
\* so writes no reply.
C23_BadLengthClosesSession ==
    [][ (AtRecv /\ BadLength(RecvBuffer))
        => /\ srv'.pc # "handle"
           /\ fds'[client_sockets_[srv.i]] = "closed" ]_vars

\* the frames of a buffer: each a length followed by one whole request, or
\* one whole unframed request
WholeFrames(buffer) ==
    /\ buffer # <<>>
    /\ \A k \in 1..Len(buffer) :
          IF buffer[k].kind = "len"
          THEN k < Len(buffer) /\ buffer[k + 1].kind = "text"
          ELSE buffer[k].part = "all"

FrameCount(buffer) ==
    Cardinality({k \in 1..Len(buffer) : buffer[k].kind = "text"})

FirstRequest(buffer) ==
    LET k == CHOOSE i \in 1..Len(buffer) :
                 /\ buffer[i].kind = "text"
                 /\ \A j \in 1..(i - 1) : buffer[j].kind # "text"
    IN  buffer[k].req

\* C24: what one recv hands to messageHandler is one complete request: a
\* part of a request is kept until the rest has arrived, and of two requests
\* received together each is dispatched on its own.
C24_OneDispatchPerFrame ==
    [][ (AtRecv /\ ~BadLength(RecvBuffer))
        => IF WholeFrames(RecvBuffer)
           THEN /\ srv'.pc = "handle"
                /\ srv'.message = FirstRequest(RecvBuffer)
                /\ FrameCount(RecvBuffer) > 1
                     => conn'[client_sockets_[srv.i]].inbox # <<>>
           ELSE srv'.pc # "handle" ]_vars


\* ---- malformed requests ----
\* a request that is no JSON, names no request type, or lacks the PID its
\* type needs
BadRequest(m) ==
    \/ ~m.json
    \/ m.request_type = ""
    \/ m.request_type \in PidCommands /\ m.PID = NoPid

HandleStep == srv.pc = "handle" /\ srv'.pc = "send"

ControlStep ==
    /\ HandleStep
    /\ ~BadRequest(srv.message)
    /\ srv.message.request_type \in
          {SUSPEND_PROCESS, RESUME_PROCESS, TERMINATE_PROCESS}

ExpectedSignal(rt) ==
    IF rt = SUSPEND_PROCESS THEN SIGSTOP
    ELSE IF rt = RESUME_PROCESS THEN SIGCONT
    ELSE SIGTERM

Colons(line) == {i \in 1..Len(line) : line[i] = ":"}

\* exactly four colon-separated fields, the last being the character 0 or 1
WellFormedLine(line) ==
    /\ Cardinality(Colons(line)) = 3
    /\ Len(line) >= 2
    /\ line[Len(line) - 1] = ":"
    /\ line[Len(line)] \in {"0", "1"}

\* C27: a line that is blank, has not exactly four fields, or whose role is
\* not the single character 0 or 1 yields no entry and lets no login in; a
\* well-formed line of the same file is still evaluated, with its own role.
C27_MalformedLinesSkipped ==
    /\ (call.op = "FromString" /\ ~WellFormedLine(call.entries)) => ~call.ok
    /\ (call.op = "ValidateLogin" /\ ~WellFormedLine(call.entries))
          => /\ call.count # 1
             /\ call.ok => call.value = ADMIN


\* ---- registry and group locks ----
Threads == {"main", "server"}

Holder(lock) == IF lock = "Registry" THEN core_mutex_ ELSE group_mutex_

\* the lock a thread is about to take at its position, "none" elsewhere
Wants(t) ==
    IF t = "main"
    THEN IF mainT.pc = "collect" THEN "Registry"
         ELSE IF mainT.pc = "stats" THEN "Groups"
         ELSE IF mainT.pc = "member" /\ mainT.todo # <<>>
                 /\ exists(Head(mainT.todo)[2]) THEN "Registry"
         ELSE "none"
    ELSE IF /\ srv.pc = "handle"
            /\ EarlyError(srv.message) = ""
            /\ srv.message.request_type
                  \in {GET_SIMPLE_DETAILS, GET_DETAILED_DETAILS}
         THEN "Registry"
         ELSE "none"

\* some threads each wait for a lock that one of them holds
Deadlocked ==
    \E T \in SUBSET Threads :
        /\ T # {}
        /\ \A t \in T : Wants(t) # "none" /\ Holder(Wants(t)) \in T

TakesRegistry(t) == core_mutex_ # t /\ core_mutex_' = t
TakesGroups(t) == group_mutex_ # t /\ group_mutex_' = t

C29_IterationReachesSleep ==
    (monT.pc = "lock") ~> (monT.pc = "sleep")


\* the history step of the sampler of main.cpp
HistStep == mainT.pc = "hist" /\ mainT'.pc = "sleep"

SnapshotPids == {process_list_[i].pid : i \in 1..Len(process_list_)}

SnapshotRecord(p) ==
    process_list_[CHOOSE i \in 1..Len(process_list_) : process_list_[i].pid = p]

\* the history of p after the step is the one before it with one entry, made
\* of p's record, put in front (and the oldest dropped at the limit)
OnePush(p) ==
    LET old == history_data_[p]
        new == history_data_'[p]
    IN  /\ new # <<>>
        /\ Head(new) = HistoryEntry(SnapshotRecord(p).cpu, SnapshotRecord(p).mem)
        /\ Len(new) = Min(Len(old) + 1, MaxEntries)
        /\ Tail(new) = SubSeq(old, 1, Len(new) - 1)

\* the order of the steps of an iteration: rescan, group statistics, history
StepsInOrder ==
    /\ mainT'.pc = "stats" => mainT.pc \in {"collect", "scan"}
    /\ mainT'.pc = "hist" => mainT.pc = "stats"
    /\ mainT'.pc = "sleep" => mainT.pc = "hist"
    /\ process_list_' # process_list_ => mainT.pc \in {"collect", "scan"}
    /\ history_data_' # history_data_ => HistStep

\* C30 as stated: the steps of an iteration come in the order rescan, group
\* statistics, history, and the history step pushes exactly one sample for
\* every PID of the list the rescan left and none for any other PID.
C30_OneSamplePerSnapshotPid ==
    [][ mainT' # mainT =>
          /\ StepsInOrder
          /\ HistStep =>
               \A p \in PIDs : IF p \in SnapshotPids THEN OnePush(p)
                               ELSE history_data_'[p] = history_data_[p] ]_vars

\* the PIDs of the list before p that have no history yet
NewBefore(p) ==
    {process_list_[i].pid : i \in
        {j \in 1..Len(process_list_) :
            /\ history_data_[process_list_[j].pid] = <<>>
            /\ \E k \in (j + 1)..Len(process_list_) : process_list_[k].pid = p}}

\* addEntry takes p's sample: p has a history, or fewer PIDs than
\* max_tracked_processes_ have one when p's turn comes
HasRoomAtTurn(p) ==
    \/ history_data_[p] # <<>>
    \/ Cardinality(TrackedPids) + Cardinality(NewBefore(p)) < MaxTracked

\* C30: the steps of an iteration come in the order rescan, group
\* statistics, history; the history step pushes exactly one sample for every
\* PID of the list the rescan left that has a history or for which there is
\* room to start one, and none for any other PID.
C30_OneSamplePerTrackedSnapshotPid ==
    [][ mainT' # mainT =>
          /\ StepsInOrder
          /\ HistStep =>
               \A p \in PIDs : IF p \in SnapshotPids /\ HasRoomAtTurn(p)
                               THEN OnePush(p)
                               ELSE history_data_'[p] = history_data_[p] ]_vars

\* an iteration has pushed a sample for one PID of a list of two and none
\* for the other, for which there was no room
C30_Witness ==
    /\ mainT.pc = "sleep"
    /\ Len(process_list_) = 2
    /\ \E p \in PIDs : /\ history_data_[p] # <<>>
                       /\ \A q \in PIDs \ {p} : history_data_[q] = <<>>


\* ---- group statistics ----
\* the sampler's call of updateGroupStats
StatsStep == mainT.pc = "stats" /\ mainT'.pc = "hist"

RegistryPids == {process_list_[i].pid : i \in 1..Len(process_list_)}

\* C31: after updateGroupStats every member a group still has is in the
\* registry, and the group's totals are the sums of the CPU and memory
\* values of the registry's records of these members.
C31_GroupTotalsFromRegistry ==
    [][ StatsStep =>
          \A g \in GroupIds :
             groups_'[g].exists =>
                /\ groups_'[g].processes \subseteq RegistryPids
                /\ GroupTotals(g) = RegistryTotals(groups_'[g].processes) ]_vars


\* ---- the registry after a rescan ----
RecordsOf(p) == {i \in 1..Len(process_list_) : process_list_[i].pid = p}

\* C32: when collectInfo has returned, the registry holds at most one record
\* per PID, its PIDs are exactly those whose read succeeded in that scan (a
\* PID of the scan before that is gone now has no record), and a count
\* that was returned is the number of records.
C32_RegistryIsTheScan ==
    mainT.pc = "stats" =>
        /\ \A p \in PIDs : Cardinality(RecordsOf(p)) <= 1
        /\ RegistryPids = mainT.read
        /\ mainT.count # COLLECT_FAILED => mainT.count = Len(process_list_)

\* a rescan has returned the count 1 where the scan before it had found two
\* processes
C32_Witness ==
    /\ mainT.pc = "stats"
    /\ mainT.count = 1
    /\ Len(process_list_) = 1
    /\ Len(completed) = 1
    /\ \E i \in 1..Len(history_data_) : history_data_[i] # <<>>


\* ---- CPU baselines ----
\* the PIDs for which readProcessCpu remembers an earlier sample
BaselinePids == {p \in PIDs : last_cpu_times[p] # NoTime}

\* the scan puts a record of p into the registry
ScansPid(p) ==
    /\ mainT.pc = "scan"
    /\ Len(process_list_') = Len(process_list_) + 1
    /\ process_list_'[Len(process_list_')].pid = p

\* C33: when a rescan has returned its count, only the PIDs seen in that
\* scan have a CPU baseline; a PID that the scan before did not see gets a
\* record with cpu_percent 0.
C33_BaselinesOnlyForScannedPids ==
    /\ []((mainT.pc = "stats" /\ mainT.count # COLLECT_FAILED)
             => BaselinePids \subseteq RegistryPids)
    /\ [][\A p \in PIDs :
            (ScansPid(p) /\ p \notin SeqToSet(completed))
               => process_list_'[Len(process_list_')].cpu = 0]_vars


\* C34: a process whose CPU time is below what it was at the sample before
\* gets a record with cpu_percent 0, and no record has a negative figure.
C34_CounterResetReportsZero ==
    /\ [](\A i \in 1..Len(process_list_) : process_list_[i].cpu >= 0)
    /\ [][\A p \in PIDs :
            (/\ ScansPid(p)
             /\ last_cpu_times[p] # NoTime
             /\ sutime[p] < last_sutime[p])
               => process_list_'[Len(process_list_')].cpu = 0]_vars


\* ---- what a request leaves alone ----
\* C35: handling a Suspend, Resume or Terminate request leaves the registry
\* table, the CPU baselines, the history and the group index as they were;
\* a terminated process is gone from the system and still in the registry,
\* which changes only in a step of the rescan.
C35_ControlLeavesRegistryAlone ==
    /\ [][ControlStep
            => /\ UNCHANGED <<process_list_, last_cpu_times, history_data_,
                              groupVars>>
               /\ (srv'.response.body.success
                   /\ srv.message.request_type = TERMINATE_PROCESS)
                     => srv.message.PID \notin procs']_vars
    /\ [][process_list_' # process_list_ => mainT.pc \in {"collect", "scan"}]_vars

\* a Terminate request succeeded for a process that is in the registry, in
\* the history and in a group
C35_Witness ==
    /\ srv.pc = "send"
    /\ srv.message.request_type = TERMINATE_PROCESS
    /\ srv.response.error = ""
    /\ srv.response.body.success
    /\ srv.message.PID \in RegistryPids
    /\ srv.message.PID \notin procs
    /\ srv.message.PID \in groups_[1].processes
    /\ \E i \in 1..Len(history_data_) : history_data_[i] # <<>>


\* a server step that handles a GetProcesses or GetSimpleProcessDetails
\* request
ReadStep ==
    /\ srv.message.request_type \in {GET_PROCESSES, GET_SIMPLE_DETAILS}
    /\ \/ srv.pc = "handle" /\ srv'.pc \in {"send", "list"}
       \/ srv.pc = "list" /\ (srv'.acc # srv.acc \/ srv'.pc = "send")

\* the C server answers a read request
LegacyReadStep == monT'.response # monT.response

\* C36: handling a GetProcesses or GetSimpleProcessDetails request leaves
\* the process table, the CPU baselines and the time of the last scan as
\* they were.
C36_ReadLeavesRegistryAlone ==
    /\ [][ReadStep => UNCHANGED <<process_list_, last_cpu_times>>]_vars
    /\ [][LegacyReadStep
            => /\ monT'.proc_list = monT.proc_list
               /\ monT'.proc_count = monT.proc_count
               /\ monT'.last_pid = monT.last_pid
               /\ monT'.last_update_time = monT.last_update_time]_vars


\* ---- client descriptors ----
\* the sockets in the server's client list
ListedFds == SeqToSet(client_sockets_)

\* handleClient's close(client_socket), line 397
HandleClientCloses == srv.pc = "iter" /\ srv'.pc = "peek"

\* C37: an open client descriptor is in the client list (or is the socket
\* accept has just returned, about to be added or rejected); a descriptor
\* that leaves the list is closed; handleClient and shutdown close only
\* descriptors that are open.
C37_ListedOrClosed ==
    /\ [](\A f \in ClientFds :
            fds[f] = "open" => (f \in ListedFds \/ f = srv.new_socket))
    /\ [][\A f \in ClientFds :
            (f \in ListedFds /\ f \notin SeqToSet(client_sockets_'))
               => fds'[f] = "closed"]_vars
    /\ [][HandleClientCloses => fds[srv'.sd] = "open"]_vars
    /\ [][(client_sockets_' = <<>> /\ mainT.pc # mainT'.pc)
            => \A f \in ListedFds : fds[f] = "open"]_vars


\* ---- shutdown against the server thread ----
\* serverLoop line 255: select returns
SelectCall == srv.pc = "select" /\ srv'.pc # "select"

\* serverLoop lines 278-279: accept(server_fd_, ...) returns
AcceptCall == srv.pc = "accept" /\ srv'.pc \in {"add", "top", "done"}

\* handleClient's recv, send's ::send and the MSG_PEEK recv after it
ClientIo ==
    \/ srv.pc = "iter" /\ srv'.pc \in {"handle", "peek"}
    \/ srv.pc = "send" /\ srv'.pc # "send"

\* C38: the server loop's select has the open listening descriptor in its
\* set, its accept is made on the open listening descriptor, and the
\* client descriptor it receives from or sends to is open.
C38_NoUseAfterShutdownClose ==
    /\ [][SelectCall
            => /\ NoFd \notin srv.read_fds
               /\ fds[LISTEN_FD] = "open"]_vars
    /\ [][AcceptCall
            => server_fd_ # NoFd /\ fds[LISTEN_FD] = "open"]_vars
    /\ [][ClientIo => fds[srv'.sd] = "open" \/ fds[srv.sd] = "open"]_vars


\* ---- start and stop ----
\* init returns
InitStep == mainT.pc = "init" /\ mainT'.pc = "loop"

\* shutdown passes its first test
ShutdownEntry == mainT.pc = "shutdown" /\ mainT'.pc # "shutdown"

\* C39: init on a running server returns true and leaves the listening
\* socket, the client list and the server thread as they were; shutdown on
\* a server that is not running returns at once and changes nothing; after
\* an init that returned false the server is not running, server_fd_ is -1
\* and the listening descriptor is closed.
C39_StartStopIdempotent ==
    /\ [][(InitStep /\ running_)
            => /\ call'.ok
               /\ UNCHANGED <<srvVars, netVars>>]_vars
    /\ [][(ShutdownEntry /\ ~running_)
            => /\ mainT'.pc = "sd_rest"
               /\ UNCHANGED <<srvVars, netVars>>]_vars
    /\ [][(InitStep /\ ~call'.ok)
            => /\ ~running_'
               /\ server_fd_' = NoFd
               /\ fds'[LISTEN_FD] = "closed"]_vars

\* init has returned true on a running server that has a client in its
\* list
C39_Witness ==
    /\ call.op = "init"
    /\ call.ok
    /\ call.value = 1
    /\ running_
    /\ server_fd_ = LISTEN_FD
    /\ fds[LISTEN_FD] = "open"
    /\ client_sockets_ # <<>>
    /\ srv.pc # "done"

=============================================================================
